---- MODULE Spec2Model ----
(***************************************************************************)
(* Model of the E2E test orchestrator of mdatp-xplat (tests/e2e/runner.py  *)
(* with health_checker.py, distro_parser.py and results_formatter.py).     *)
(*                                                                         *)
(* Three specifications share the variables and the actions:               *)
(*   SpecTest  one call of TestRunner.run_test, the VM drawn from the full *)
(*             sets of behaviours (outcomes, durations, health reports);   *)
(*   Spec      the process: main, then run_tests as main calls it;         *)
(*   SpecPar   one call of TestRunner.run_tests with any requested         *)
(*             max_concurrent (sequential loop or thread pool).            *)
(* Spec and SpecPar draw the VMs' behaviours from the smaller sets Quick*. *)
(***************************************************************************)
EXTENDS Integers, Sequences, FiniteSets, TLC

\* ------------------------------------------------------------------ bounds
MaxRequested == 2      \* run_tests is called with max_concurrent in 0..MaxRequested
MaxCeiling == 2        \* config vagrant.concurrent_vms is in 0..MaxCeiling

\* --------------------------------------------------------------- constants
VM_TIMEOUT_SECONDS == 15 * 60
max_attempts == 3
interval == 10

\* The clock of one run_test saturates one second past the budget: every
\* elapsed time above the budget is treated alike by check_timeout.
ClockCap == VM_TIMEOUT_SECONDS + 1
Min(a, b) == IF a <= b THEN a ELSE b
Advance(e, d) == Min(e + d, ClockCap)

\* How long a blocking call may take (seconds): at once, exactly the budget,
\* one second more than the budget.
Durations == {0, VM_TIMEOUT_SECONDS, VM_TIMEOUT_SECONDS + 1}
QuickDurations == {0, VM_TIMEOUT_SECONDS + 1}

\* ------------------------------------------------------------ HealthStatus
NoHealth == [none |-> TRUE]
HealthStatus(d, o, u) ==
    [daemon_running |-> d, onboarded |-> o, definitions_updated |-> u]
AllHealth == {HealthStatus(d, o, u) : d \in BOOLEAN, o \in BOOLEAN, u \in BOOLEAN}

is_healthy(h) == h.daemon_running /\ h.onboarded /\ h.definitions_updated

\* What VagrantRunner.check_health may return: (None, None) on a failed
\* command or malformed JSON, else the parsed status.
HealthOutcomes ==
    {NoHealth, HealthStatus(TRUE, FALSE, TRUE), HealthStatus(TRUE, TRUE, FALSE),
     HealthStatus(TRUE, FALSE, FALSE), HealthStatus(TRUE, TRUE, TRUE)}
QuickHealthOutcomes == {NoHealth, HealthStatus(TRUE, TRUE, TRUE)}
MainHealthOutcomes ==
    {NoHealth, HealthStatus(TRUE, FALSE, TRUE), HealthStatus(TRUE, TRUE, TRUE)}

\* -------------------------------------------------------------- TestResult
NoReason == "None"
ReasonStartFailed == "Failed to start VM"
ReasonTimeoutSetup == "Timeout: VM setup took longer than 15 minutes"
ReasonTimeoutHealth == "Timeout: health check exceeded 15 min limit"
ReasonException == "Exception: e"
ReasonTestFailed == "Test failed"
\* The failure reasons whose text contains "Timeout".
TimeoutReasons == {ReasonTimeoutSetup, ReasonTimeoutHealth}

TestResult(cfg, inst, onb, uninst, reason, logs) ==
    [distro |-> cfg.distro, version |-> cfg.version, install_passed |-> inst,
     onboarding_passed |-> onb, uninstall_passed |-> uninst,
     failure_reason |-> reason, logs |-> logs]
NoResult == [none |-> TRUE]

\* ------------------------------------------------------- the distro matrix
\* Entries of DistroParser.get_test_matrix (sorted by distro, version): a
\* sample of the curated table with a local/ box of each kind and a distro
\* whose family has another distro's name.  A box name "ns/name" is the pair
\* <<ns, name>>.
Matrix ==
    << [distro |-> "debian", version |-> "12", scaled_version |-> "12",
        family |-> "debian", vagrant_box |-> <<"local", "debian12">>],
       [distro |-> "fedora", version |-> "40", scaled_version |-> "8",
        family |-> "fedora", vagrant_box |-> <<"local", "fedora40">>],
       [distro |-> "ubuntu", version |-> "22.04", scaled_version |-> "22.04",
        family |-> "debian", vagrant_box |-> <<"generic", "ubuntu2204">>] >>
TaskIds == 1..Len(Matrix)

VARIABLES
    config,     \* TestRunner.config: the sections the runner reads
    distros,    \* the list of distro entries under test
    task,       \* task[t]: the run_test call for distros[t]
    tracing,    \* whether the calls' histories (task[t].ops) are recorded
    mpc,        \* main: position
    exitCode,   \* main: the process exit code, -1 while running
    loaded,     \* main: the loaders that have succeeded so far
    selected,   \* main: the distro selection before box building
    dryRun,     \* main: --dry-run was given
    built,      \* main: the boxes build_box was called for
    rtpc,       \* run_tests: position
    requested,  \* run_tests: the max_concurrent argument
    maxc,       \* run_tests: max_concurrent after the cap
    results,    \* run_tests: the list it returns
    formatter,  \* ResultsFormatter.results
    fut,        \* run_tests: the future of each task the pool was given
    call        \* the call of a library function under study: its inputs,
                \* its position and what it has produced

vars == <<config, distros, task, tracing, call, mpc, exitCode, loaded, selected, dryRun, built,
          rtpc, requested, maxc, results, formatter, fut>>
NoCall == [fn |-> "none"]
mainVars == <<mpc, exitCode, loaded, selected, dryRun, built>>
rtVars == <<rtpc, requested, maxc, results, formatter, fut>>

\* ------------------------------------------------------------- run_test
\* The local state of one run_test call.  ops is the history of the calls made
\* on its VagrantRunner, in order, each with what it returned.
IdleTask ==
    [pc |-> "idle", elapsed |-> 0, attempt |-> 0, health |-> NoHealth,
     offboard_passed |-> FALSE, uninstall_passed |-> FALSE,
     result |-> NoResult, exc |-> FALSE, ops |-> <<>>]

\* secs: how long setup_vm took (0 for the other calls, which this history
\* does not time).
Op(name, out) == [op |-> name, out |-> out, health |-> NoHealth, secs |-> 0]
ProbeOp(h) == [op |-> "check_health", out |-> "returned", health |-> h, secs |-> 0]
SetupOp(out, d) == [op |-> "setup_vm", out |-> out, health |-> NoHealth, secs |-> d]
Outcome(ok) == IF ok THEN "ok" ELSE "failed"
\* The history is a history variable: the program does not read it.  It is
\* recorded under SpecTest only.
Record(ops, entry) == IF tracing THEN Append(ops, entry) ELSE ops

check_timeout_Never(elapsed) == FALSE
check_timeout_TwiceTheBudget(elapsed) == elapsed > 2 * VM_TIMEOUT_SECONDS
\* check_timeout(): elapsed > VM_TIMEOUT_SECONDS
check_timeout(elapsed) == elapsed > VM_TIMEOUT_SECONDS

FailedResult_InstallPassed(cfg, reason) == TestResult(cfg, TRUE, FALSE, FALSE, reason, {})
FailedResult(cfg, reason) == TestResult(cfg, FALSE, FALSE, FALSE, reason, {})

\* run_test returns r (or lets an exception through): control goes to the
\* finally block.  The locals are dead from here on and are dropped.
Returning(tk, r, exc) ==
    [IdleTask EXCEPT !.pc = "finally", !.result = r, !.exc = exc, !.ops = tk.ops]

\* run_test is entered: start_time is taken and the VagrantRunner created.
RunTestEnter(t) ==
    task' = [task EXCEPT ![t] = [IdleTask EXCEPT !.pc = "setup"]]

\* vagrant.setup_vm, then the timeout check after VM startup.
RunTestSetup(t, D) ==
    /\ task[t].pc = "setup"
    /\ \E ok \in BOOLEAN, d \in D :
         LET e == Advance(task[t].elapsed, d)
             s == [task[t] EXCEPT !.elapsed = e,
                                  !.ops = Record(@, SetupOp(Outcome(ok), d))]
         IN task' = [task EXCEPT ![t] =
                IF ~ok
                THEN Returning(s, FailedResult(distros[t], ReasonStartFailed), FALSE)
                ELSE IF check_timeout(e)
                THEN Returning(s, FailedResult(distros[t], ReasonTimeoutSetup), FALSE)
                ELSE [s EXCEPT !.pc = "probe", !.attempt = 1]]
    /\ UNCHANGED <<config, distros, tracing, call, mainVars, rtVars>>

NextAfterProbe_NoBreak(h, attempt) ==
    IF attempt < max_attempts THEN "restart" ELSE "offboard"
\* Where the health loop goes after a probe: break when healthy, restart and
\* retry while attempts remain, else fall out of the loop.
NextAfterProbe(h, attempt) ==
    IF h # NoHealth /\ is_healthy(h) THEN "offboard"
    ELSE IF attempt < max_attempts THEN "restart"
    ELSE "offboard"

\* One iteration of the health loop up to the restart: the timeout check,
\* vagrant.check_health, and the break on a healthy status.
RunTestProbe(t, H, D) ==
    /\ task[t].pc = "probe"
    /\ IF check_timeout(task[t].elapsed)
       THEN task' = [task EXCEPT ![t] =
                Returning(task[t], FailedResult(distros[t], ReasonTimeoutHealth), FALSE)]
       ELSE \E h \in H, d \in D :
              LET next == NextAfterProbe(h, task[t].attempt)
              IN task' = [task EXCEPT
                     \* the clock and the attempt are not read after the loop
                     ![t].elapsed = IF next = "restart" THEN Advance(@, d) ELSE 0,
                     ![t].attempt = IF next = "restart" THEN @ ELSE 0,
                     ![t].health = h,
                     ![t].ops = Record(@, ProbeOp(h)),
                     ![t].pc = next]
    /\ UNCHANGED <<config, distros, tracing, call, mainVars, rtVars>>

\* The rest of the iteration: vagrant.restart_mdatp (its result is ignored;
\* d covers the call with its own sleep) and time.sleep(interval).
RunTestRestart(t, D) ==
    /\ task[t].pc = "restart"
    /\ \E d \in D :
         task' = [task EXCEPT
             ![t].elapsed = Advance(Advance(@, d), interval),
             ![t].ops = Record(@, Op("restart_mdatp", "returned")),
             ![t].attempt = @ + 1,
             ![t].pc = "probe"]
    /\ UNCHANGED <<config, distros, tracing, call, mainVars, rtVars>>

install_passed_Healthy(tk) == tk.health # NoHealth /\ is_healthy(tk.health)
install_passed_Always(tk) == TRUE
install_passed(tk) == tk.health # NoHealth
onboarding_passed_Never(tk) == FALSE
onboarding_passed(tk) == IF tk.health # NoHealth THEN tk.health.onboarded ELSE FALSE

\* "Determine test status", then vagrant.offboard when install passed.
RunTestOffboard(t) ==
    /\ task[t].pc = "offboard"
    /\ IF install_passed(task[t])
       THEN \E ok \in BOOLEAN :
              task' = [task EXCEPT
                  ![t].offboard_passed = ok,
                  ![t].ops = Record(@, Op("offboard", Outcome(ok))),
                  ![t].pc = IF ok THEN "uninstall" ELSE "collect"]
       ELSE task' = [task EXCEPT ![t].pc = "collect"]
    /\ UNCHANGED <<config, distros, tracing, call, mainVars, rtVars>>

\* vagrant.uninstall, reached only when offboard passed.
RunTestUninstall(t) ==
    /\ task[t].pc = "uninstall"
    /\ \E ok \in BOOLEAN :
         task' = [task EXCEPT
             ![t].uninstall_passed = ok,
             ![t].ops = Record(@, Op("uninstall", Outcome(ok))),
             ![t].pc = "collect"]
    /\ UNCHANGED <<config, distros, tracing, call, mainVars, rtVars>>

\* The files run_test asks get_logs for, by name.
LogNames == {"installer.log", "managed_apply.log"}
\* get_logs: a file's command exits 0 ("ok": an entry with its output), exits
\* non-zero ("nonzero": no entry) or raises ("raised": an entry with the error).
LogOutcomes == {"ok", "nonzero", "raised"}
QuickLogOutcomes == {"ok"}
get_logs(outcome) == {n \in LogNames : outcome[n] # "nonzero"}

all_passed_NoOnboarding(inst, onb, offb, uninst) == inst /\ offb /\ uninst
all_passed(inst, onb, offb, uninst) == inst /\ onb /\ offb /\ uninst

\* "Collect logs" (only when install did not pass) and "Create result".
RunTestCollect(t, L) ==
    /\ task[t].pc = "collect"
    /\ LET tk == task[t]
           inst == install_passed(tk)
           onb == onboarding_passed(tk)
           reason == IF all_passed(inst, onb, tk.offboard_passed, tk.uninstall_passed)
                     THEN NoReason ELSE ReasonTestFailed
       IN IF inst
          THEN task' = [task EXCEPT ![t] =
                   Returning(tk, TestResult(distros[t], inst, onb, tk.uninstall_passed,
                                            reason, {}), FALSE)]
          ELSE \E outcome \in [LogNames -> L] :
                 task' = [task EXCEPT ![t] =
                     Returning([tk EXCEPT !.ops = Record(@, Op("get_logs", "returned"))],
                               TestResult(distros[t], inst, onb, tk.uninstall_passed,
                                          reason, get_logs(outcome)), FALSE)]
    /\ UNCHANGED <<config, distros, tracing, call, mainVars, rtVars>>

\* The call that is made at each position inside the try block.
OpAt(pc) ==
    CASE pc = "setup" -> "setup_vm"
      [] pc = "probe" -> "check_health"
      [] pc = "restart" -> "restart_mdatp"
      [] pc = "offboard" -> "offboard"
      [] pc = "uninstall" -> "uninstall"
      [] pc = "collect" -> "get_logs"

CallPositions == {"setup", "probe", "restart", "offboard", "uninstall", "collect"}
TryBlock_AfterSetup == CallPositions \ {"setup"}
\* The positions that the try block of run_test encloses.
TryBlock == CallPositions

\* The call about to be made raises.  Inside the try block "except Exception"
\* turns it into a result; outside it the exception leaves run_test (after the
\* finally block).  The VagrantRunner methods catch what their own subprocess
\* calls raise (setup_vm prepares its environment before its try); the action
\* lets any of the calls raise, which is more than they do.
RunTestExcept(t) ==
    /\ task[t].pc \in CallPositions
    /\ task[t].pc = "probe" => ~check_timeout(task[t].elapsed)
    /\ task[t].pc \in {"offboard", "collect"} =>
          (task[t].pc = "offboard") = install_passed(task[t])
    /\ task' = [task EXCEPT ![t] =
           Returning([task[t] EXCEPT !.ops = Record(@, Op(OpAt(task[t].pc), "raised"))],
                     IF task[t].pc \in TryBlock
                     THEN FailedResult(distros[t], ReasonException)
                     ELSE NoResult,
                     task[t].pc \notin TryBlock)]
    /\ UNCHANGED <<config, distros, tracing, call, mainVars, rtVars>>

DestroyIf_Always(preserve) == TRUE
DestroyIf_Never(preserve) == FALSE
\* finally: whether vagrant.destroy is called
DestroyIf(preserve) == ~preserve

\* The finally block, after which run_test has returned task[t].result.
RunTestFinally(t) ==
    /\ task[t].pc = "finally"
    /\ task' = [task EXCEPT
           ![t].ops = IF DestroyIf(config.preserve_on_failure)
                      THEN Record(@, Op("destroy", "returned")) ELSE @,
           ![t].pc = IF task[t].exc THEN "raised" ELSE "done"]
    /\ UNCHANGED <<config, distros, tracing, call, mainVars, rtVars>>

\* ------------------------------------------------- one run_test call alone
\* The config documents: test.preserve_on_failure, vagrant.concurrent_vms,
\* distros.include and distros.exclude ({} when absent or empty).
Configs ==
    [preserve_on_failure : BOOLEAN, concurrent_vms : 0..MaxCeiling,
     include : {{}, {"ubuntu", "debian"}}, exclude : {{}, {"debian"}}]
PlainConfigs == {c \in Configs : c.include = {} /\ c.exclude = {}}

InitTest ==
    /\ config \in {c \in PlainConfigs : c.concurrent_vms = 1}
    /\ distros \in {<<Matrix[i]>> : i \in TaskIds}
    /\ task = [t \in TaskIds |-> IdleTask]
    /\ tracing = TRUE
    /\ call = NoCall
    /\ mpc = "none" /\ exitCode = -1 /\ loaded = {} /\ selected = <<>>
    /\ dryRun = FALSE /\ built = {}
    /\ rtpc = "none" /\ requested = 1 /\ maxc = 1
    /\ results = <<>> /\ formatter = <<>> /\ fut = [t \in TaskIds |-> [state |-> "none", result |-> NoResult, exc |-> FALSE]]

TestCall ==
    /\ task[1].pc = "idle"
    /\ RunTestEnter(1)
    /\ UNCHANGED <<config, distros, tracing, call, mainVars, rtVars>>

NextTest ==
    \/ TestCall
    \/ RunTestSetup(1, Durations)
    \/ RunTestProbe(1, HealthOutcomes, Durations)
    \/ RunTestRestart(1, Durations)
    \/ RunTestOffboard(1)
    \/ RunTestUninstall(1)
    \/ RunTestCollect(1, LogOutcomes)
    \/ RunTestExcept(1)
    \/ RunTestFinally(1)

SpecTest == InitTest /\ [][NextTest]_vars

\* ------------------------------------------------------------- run_tests
NoFuture == [state |-> "none", result |-> NoResult, exc |-> FALSE]
Future(state, tk) == [state |-> state, result |-> tk.result, exc |-> tk.exc]
InState(st) == {t \in TaskIds : fut[t].state = st}

cap_Requested(req, config_max) == req
\* max_concurrent = min(max_concurrent, config_max)
cap(req, config_max) == Min(req, config_max)

\* run_tests(distros, max_concurrent) is called: the cap, then the branch on
\* max_concurrent == 1.  ThreadPoolExecutor(max_workers) raises ValueError
\* when max_workers <= 0.
RunTestsCall(req) ==
    /\ requested' = req
    /\ maxc' = cap(req, config.concurrent_vms)
    /\ rtpc' = IF maxc' = 1 THEN "sequential"
               ELSE IF maxc' <= 0 THEN "raised"
               ELSE "submit"
    /\ results' = <<>>
    /\ UNCHANGED <<formatter, fut>>

add_result_Dropped(fmt, result) == fmt
\* ResultsFormatter.add_result(result): self.results.append(result)
add_result(fmt, result) == Append(fmt, result)

LoopOver_StopOnFailure(res, ds) ==
    \/ Len(res) = Len(ds)
    \/ res # <<>> /\ ~res[Len(res)].install_passed
\* "for distro in distros" is over when every distro has had its turn.
LoopOver(res, ds) == Len(res) = Len(ds)

\* Sequential execution: the next distro's run_test is called.
SeqRun ==
    /\ rtpc = "sequential"
    /\ ~LoopOver(results, distros)
    /\ task[Len(results) + 1].pc = "idle"
    /\ RunTestEnter(Len(results) + 1)
    /\ UNCHANGED <<config, distros, tracing, call, mainVars, rtVars>>

\* Sequential execution: run_test has returned; results.append and add_result.
\* An exception leaving run_test leaves run_tests too.
SeqCollect ==
    LET t == Len(results) + 1
    IN /\ rtpc = "sequential"
       /\ t <= Len(distros)
       /\ task[t].pc \in {"done", "raised"}
       /\ IF task[t].pc = "raised"
          THEN rtpc' = "raised" /\ UNCHANGED <<results, formatter>>
          ELSE /\ results' = Append(results, task[t].result)
               /\ formatter' = add_result(formatter, task[t].result)
               /\ UNCHANGED rtpc
       /\ task' = [task EXCEPT ![t] = IdleTask]
       /\ UNCHANGED <<config, distros, tracing, call, mainVars, requested, maxc, fut>>

\* Sequential execution: the loop is over, "return results".
SeqReturn ==
    /\ rtpc = "sequential"
    /\ LoopOver(results, distros)
    /\ rtpc' = "returned"
    /\ UNCHANGED <<config, distros, task, tracing, call, mainVars, requested, maxc, results,
                   formatter, fut>>

\* Parallel execution: executor.submit for the next distro; after the last
\* one the orchestrator enters the as_completed loop.
ParSubmit ==
    /\ rtpc = "submit"
    /\ LET t == Cardinality(TaskIds \ InState("none")) + 1
       IN IF t <= Len(distros)
          THEN /\ fut' = [fut EXCEPT ![t].state = "queued"]
               /\ UNCHANGED rtpc
          ELSE rtpc' = "as_completed" /\ UNCHANGED fut
    /\ UNCHANGED <<config, distros, task, tracing, call, mainVars, requested, maxc, results,
                   formatter>>

\* A worker thread of the pool (there are max_workers of them) takes the
\* oldest queued work item and calls run_test.
WorkerTake(t) ==
    /\ fut[t].state = "queued"
    /\ \A u \in InState("queued") : t <= u
    /\ Cardinality(InState("running")) < maxc
    /\ fut' = [fut EXCEPT ![t].state = "running"]
    /\ RunTestEnter(t)
    /\ UNCHANGED <<config, distros, tracing, call, mainVars, rtpc, requested, maxc, results,
                   formatter>>

\* The worker's run_test has returned (or raised): the future is completed.
WorkerFinish(t) ==
    /\ fut[t].state = "running"
    /\ task[t].pc \in {"done", "raised"}
    /\ fut' = [fut EXCEPT ![t] = Future("finished", task[t])]
    /\ task' = [task EXCEPT ![t] = IdleTask]
    /\ UNCHANGED <<config, distros, tracing, call, mainVars, rtpc, requested, maxc, results,
                   formatter>>

\* as_completed yields a finished future: future.result(), results.append and
\* add_result, by the thread that called run_tests.
ParCollect(t) ==
    /\ rtpc = "as_completed"
    /\ fut[t].state = "finished"
    /\ fut' = [fut EXCEPT ![t].state = "collected"]
    /\ IF fut[t].exc
       THEN rtpc' = "raised" /\ UNCHANGED <<results, formatter>>
       ELSE /\ results' = Append(results, fut[t].result)
            /\ formatter' = add_result(formatter, fut[t].result)
            /\ UNCHANGED rtpc
    /\ UNCHANGED <<config, distros, task, tracing, call, mainVars, requested, maxc>>

\* Every future has been yielded: the executor is shut down, "return results".
ParReturn ==
    /\ rtpc = "as_completed"
    /\ \A t \in 1..Len(distros) : fut[t].state = "collected"
    /\ rtpc' = "returned"
    /\ UNCHANGED <<config, distros, task, tracing, call, mainVars, requested, maxc, results,
                   formatter, fut>>

\* The steps of the run_test call t, its VM behaving as H, D and L allow.
RunTestStep(t, H, D, L) ==
    \/ RunTestSetup(t, D)
    \/ RunTestProbe(t, H, D)
    \/ RunTestRestart(t, D)
    \/ RunTestOffboard(t)
    \/ RunTestUninstall(t)
    \/ RunTestCollect(t, L)
    \/ RunTestExcept(t)
    \/ RunTestFinally(t)

\* ------------------------------------------------ one run_tests call alone
InitPar ==
    /\ config \in {c \in PlainConfigs : ~c.preserve_on_failure}
    /\ distros \in {SubSeq(Matrix, 1, n) : n \in 0..Len(Matrix)}
    /\ task = [t \in TaskIds |-> IdleTask]
    /\ tracing = FALSE
    /\ call = NoCall
    /\ mpc = "none" /\ exitCode = -1 /\ loaded = {} /\ selected = <<>>
    /\ dryRun = FALSE /\ built = {}
    /\ rtpc = "none" /\ requested = 0 /\ maxc = 0
    /\ results = <<>> /\ formatter = <<>> /\ fut = [t \in TaskIds |-> NoFuture]

ParCall ==
    /\ rtpc = "none"
    /\ \E req \in 0..MaxRequested : RunTestsCall(req)
    /\ UNCHANGED <<config, distros, task, tracing, call, mainVars>>

NextPar ==
    \/ ParCall
    \/ SeqRun
    \/ SeqCollect
    \/ SeqReturn
    \/ ParSubmit
    \/ \E t \in TaskIds : WorkerTake(t)
    \/ \E t \in TaskIds : RunTestStep(t, QuickHealthOutcomes, QuickDurations, QuickLogOutcomes)
    \/ \E t \in TaskIds : WorkerFinish(t)
    \/ \E t \in TaskIds : ParCollect(t)
    \/ ParReturn

SpecPar == InitPar /\ [][NextPar]_vars

\* ------------------------------------------------------------------ main
SecretKeys == {"ONBOARDING_FILE", "MANAGED_CONFIG_FILE", "OFFBOARDING_FILE"}
file_keys == {"ONBOARDING_FILE", "MANAGED_CONFIG_FILE"}

\* validate_secret_files: secrets is the set of keys of the .env file, files
\* the keys whose file exists under tests/e2e.
validate_secret_files_KeysOnly(secrets, files) ==
    \A key \in file_keys : key \in secrets
validate_secret_files(secrets, files) ==
    \A key \in file_keys : key \in secrets /\ key \in files

\* A --distro/--family argument is the sequence of its parts, ":" a part of
\* its own; <<>> is no filter.
NoFilter == <<>>
HasColon(f) == \E i \in 1..Len(f) : f[i] = ":"
FirstColon(f) == CHOOSE i \in 1..Len(f) : f[i] = ":" /\ \A j \in 1..(i - 1) : f[j] # ":"
FamilyFilters == {"debian", "fedora", "sles", "mariner", "azurelinux"}

\* The three filters of filter_distros, each a list comprehension over the
\* list it is given.  An empty or absent include/exclude list and an empty
\* or absent distro_filter leave the list as it is.
include_filter(ds, cfg) ==
    IF cfg.include # {}
    THEN SelectSeq(ds, LAMBDA d : d.distro \in cfg.include) ELSE ds
exclude_filter_None(ds, cfg) == ds
exclude_filter(ds, cfg) ==
    IF cfg.exclude # {}
    THEN SelectSeq(ds, LAMBDA d : d.distro \notin cfg.exclude) ELSE ds
\* The test the command-line filter f applies to the entry d.
cli_matches(d, f) ==
    IF HasColon(f)
    THEN LET k == FirstColon(f)
         IN /\ <<d.distro>> = SubSeq(f, 1, k - 1)
            /\ <<d.version>> = SubSeq(f, k + 1, Len(f))
    ELSE IF f[1] \in FamilyFilters
    THEN d.family = f[1]
    ELSE d.distro = f[1]
cli_filter(ds, f) ==
    IF f = NoFilter THEN ds ELSE SelectSeq(ds, LAMBDA d : cli_matches(d, f))

\* filter_distros(distros, distro_filter) under the config cfg.
filter_distros(ds, cfg, f) == cli_filter(exclude_filter(include_filter(ds, cfg), cfg), f)

is_local_box(box) == box[1] = "local"
Boxes(ds) == {ds[i].vagrant_box : i \in 1..Len(ds)}
missing_local(ds, installed) == {b \in Boxes(ds) : is_local_box(b) /\ b \notin installed}

\* ensure_boxes_available: the distros whose box is installed or was built;
\* failed are the boxes whose build_box fails.
ensure_boxes_available(ds, installed, failed) ==
    SelectSeq(ds, LAMBDA d : d.vagrant_box \notin (missing_local(ds, installed) \cap failed))

Loaders == {"config", "secrets", "secret_files"}
Exit(code) == mpc' = "exit" /\ exitCode' = code

\* runner.load_config()
MainLoadConfig ==
    /\ mpc = "load_config"
    /\ \E ok \in BOOLEAN :
         IF ok THEN /\ loaded' = loaded \cup {"config"}
                    /\ mpc' = "load_secrets" /\ UNCHANGED exitCode
         ELSE Exit(1) /\ UNCHANGED loaded
    /\ UNCHANGED <<config, distros, task, tracing, call, selected, dryRun, built, rtVars>>

\* runner.load_secrets()
MainLoadSecrets ==
    /\ mpc = "load_secrets"
    /\ \E ok \in BOOLEAN :
         IF ok THEN /\ loaded' = loaded \cup {"secrets"}
                    /\ mpc' = "validate" /\ UNCHANGED exitCode
         ELSE Exit(1) /\ UNCHANGED loaded
    /\ UNCHANGED <<config, distros, task, tracing, call, selected, dryRun, built, rtVars>>

AfterValidate_Ignored(valid) == "discover"
\* "if not runner.validate_secret_files(): sys.exit(1)"
AfterValidate(valid) == IF valid THEN "discover" ELSE "exit"

\* runner.validate_secret_files()
MainValidate ==
    /\ mpc = "validate"
    /\ \E secrets \in SUBSET SecretKeys, files \in SUBSET SecretKeys :
         LET valid == validate_secret_files(secrets, files)
         IN /\ loaded' = IF valid THEN loaded \cup {"secret_files"} ELSE loaded
            /\ mpc' = AfterValidate(valid)
            /\ exitCode' = IF mpc' = "exit" THEN 1 ELSE exitCode
    /\ UNCHANGED <<config, distros, task, tracing, call, selected, dryRun, built, rtVars>>

\* The values of --distro / --family and of --distros the model draws.
FilterArgs ==
    {<<"ubuntu">>, <<"debian">>, <<"fedora">>, <<"rocky">>,
     <<"ubuntu", ":", "22.04">>, <<"ubuntu", ":", "12">>}
DistrosArgs == {{"ubuntu"}, {"debian", "fedora"}, {"rocky"}}

\* The distro selection of main for the arguments: a filter (--distro or
\* --family), a --distros list, or --all.
Selection(all_distros, cfg, mode, f, list) ==
    CASE mode = "filter" -> filter_distros(all_distros, cfg, f)
      [] mode = "distros" ->
            filter_distros(SelectSeq(all_distros, LAMBDA d : d.distro \in list),
                           cfg, NoFilter)
      [] mode = "all" -> filter_distros(all_distros, cfg, NoFilter)
      [] mode = "none" -> <<>>

\* discover_distros, the selection, the check for an empty selection and
\* --dry-run.
MainSelect ==
    /\ mpc = "discover"
    /\ \E all_distros \in {<<>>, Matrix}, mode \in {"filter", "distros", "all", "none"},
          f \in FilterArgs, list \in DistrosArgs, dry \in BOOLEAN :
         IF all_distros = <<>> \/ mode = "none"
         THEN Exit(1) /\ UNCHANGED <<distros, selected, dryRun>>
         ELSE LET sel == Selection(all_distros, config, mode, f, list)
              IN /\ selected' = sel
                 /\ distros' = sel
                 /\ dryRun' = dry
                 /\ IF sel = <<>> THEN Exit(1)
                    ELSE IF dry THEN Exit(0)
                    ELSE mpc' = "boxes" /\ UNCHANGED exitCode
    /\ UNCHANGED <<config, task, tracing, call, loaded, built, rtVars>>

\* box_builder.ensure_boxes_available(distros) and the check that follows.
MainEnsureBoxes ==
    /\ mpc = "boxes"
    /\ \E installed \in SUBSET Boxes(Matrix), failed \in SUBSET Boxes(Matrix) :
         /\ built' = missing_local(distros, installed)
         /\ distros' = ensure_boxes_available(distros, installed, failed)
         /\ IF distros' = <<>> THEN Exit(1)
            ELSE mpc' = "run_tests" /\ UNCHANGED exitCode
    /\ UNCHANGED <<config, task, tracing, call, loaded, selected, dryRun, rtVars>>

\* results = runner.run_tests(distros)
MainRunTests ==
    /\ mpc = "run_tests"
    /\ RunTestsCall(1)
    /\ mpc' = "running"
    /\ UNCHANGED <<config, distros, task, tracing, call, exitCode, loaded, selected, dryRun,
                   built>>

ExitCodeFor_OnboardingCounts(res) ==
    IF \E i \in 1..Len(res) : ~(res[i].install_passed /\ res[i].onboarding_passed)
    THEN 1 ELSE 0
ExitCodeFor_AllSteps(res) ==
    IF \E i \in 1..Len(res) :
          ~(res[i].install_passed /\ res[i].onboarding_passed /\ res[i].uninstall_passed)
    THEN 1 ELSE 0
\* "if any(not r.install_passed for r in results): sys.exit(1)" else exit(0)
ExitCodeFor(res) ==
    IF \E i \in 1..Len(res) : ~res[i].install_passed THEN 1 ELSE 0

\* run_tests has returned: save_results, print_summary and the exit code.  An
\* exception that left run_tests ends the process with code 1.
MainExit ==
    /\ mpc = "running"
    /\ rtpc \in {"returned", "raised"}
    /\ Exit(IF rtpc = "raised" THEN 1 ELSE ExitCodeFor(results))
    /\ UNCHANGED <<config, distros, task, tracing, call, loaded, selected, dryRun, built,
                   rtVars>>

Init ==
    /\ config \in Configs
    /\ distros = <<>>
    /\ task = [t \in TaskIds |-> IdleTask]
    /\ tracing = FALSE
    /\ call = NoCall
    /\ mpc = "load_config" /\ exitCode = -1 /\ loaded = {} /\ selected = <<>>
    /\ dryRun = FALSE /\ built = {}
    /\ rtpc = "none" /\ requested = 0 /\ maxc = 0
    /\ results = <<>> /\ formatter = <<>> /\ fut = [t \in TaskIds |-> NoFuture]

Next ==
    \/ MainLoadConfig
    \/ MainLoadSecrets
    \/ MainValidate
    \/ MainSelect
    \/ MainEnsureBoxes
    \/ MainRunTests
    \/ SeqRun
    \/ \E t \in TaskIds : RunTestStep(t, MainHealthOutcomes, QuickDurations, QuickLogOutcomes)
    \/ SeqCollect
    \/ SeqReturn
    \/ MainExit

Spec == Init /\ [][Next]_vars

\* ===================================================================
\* The runner's variables while a library function is called on its own:
\* neither main nor run_tests has started.
RunnerAtRest ==
    /\ distros = <<>>
    /\ task = [t \in TaskIds |-> IdleTask]
    /\ tracing = FALSE
    /\ mpc = "none" /\ exitCode = -1 /\ loaded = {} /\ selected = <<>>
    /\ dryRun = FALSE /\ built = {}
    /\ rtpc = "none" /\ requested = 0 /\ maxc = 0
    /\ results = <<>> /\ fut = [t \in TaskIds |-> NoFuture]

\* ===================================================================
\* filter_distros over the curated matrix

\* DISTRO_FAMILIES: the family of each distro name.
DISTRO_FAMILIES ==
    [ubuntu |-> "debian", debian |-> "debian", rhel |-> "fedora",
     centos |-> "fedora", rocky |-> "fedora", almalinux |-> "fedora",
     ol |-> "fedora", fedora |-> "fedora", amzn |-> "fedora",
     mariner |-> "mariner", azurelinux |-> "azurelinux", sles |-> "sles"]

\* One entry of get_test_matrix for a (version, scaled_version, vagrant_box)
\* tuple of SUPPORTED_DISTROS.
MatrixEntry(distro, version, scaled, box) ==
    [distro |-> distro, version |-> version, scaled_version |-> scaled,
     family |-> DISTRO_FAMILIES[distro], vagrant_box |-> box]

\* get_test_matrix(): the entries of SUPPORTED_DISTROS in the order of
\* sorted(matrix, key=(distro, version)), the keys compared as strings.
get_test_matrix ==
    << MatrixEntry("almalinux", "8", "8", <<"generic", "alma8">>),
       MatrixEntry("almalinux", "9", "9", <<"generic", "alma9">>),
       MatrixEntry("amzn", "2", "2", <<"crystax", "amazon2">>),
       MatrixEntry("amzn", "2023", "2023", <<"crystax", "amazon2023">>),
       MatrixEntry("centos", "9", "9", <<"generic", "centos9s">>),
       MatrixEntry("debian", "10", "10", <<"local", "debian10">>),
       MatrixEntry("debian", "11", "11", <<"local", "debian11">>),
       MatrixEntry("debian", "12", "12", <<"local", "debian12">>),
       MatrixEntry("fedora", "39", "8", <<"generic", "fedora39">>),
       MatrixEntry("fedora", "40", "8", <<"local", "fedora40">>),
       MatrixEntry("fedora", "41", "8", <<"local", "fedora41">>),
       MatrixEntry("fedora", "42", "8", <<"alvistack", "fedora-42">>),
       MatrixEntry("fedora", "43", "8", <<"local", "fedora43">>),
       MatrixEntry("ol", "8", "8", <<"generic", "oracle8">>),
       MatrixEntry("ol", "9", "9", <<"generic", "oracle9">>),
       MatrixEntry("rocky", "8", "8", <<"generic", "rocky8">>),
       MatrixEntry("rocky", "9", "9", <<"generic", "rocky9">>),
       MatrixEntry("ubuntu", "18.04", "18.04", <<"generic", "ubuntu1804">>),
       MatrixEntry("ubuntu", "20.04", "20.04", <<"generic", "ubuntu2004">>),
       MatrixEntry("ubuntu", "22.04", "22.04", <<"generic", "ubuntu2204">>),
       MatrixEntry("ubuntu", "24.04", "24.04", <<"cloud-image", "ubuntu-24.04">>),
       MatrixEntry("ubuntu", "25.04", "25.04", <<"alvistack", "ubuntu-25.04">>),
       MatrixEntry("ubuntu", "25.10", "25.10", <<"alvistack", "ubuntu-25.10">>) >>

DistroNames == {get_test_matrix[i].distro : i \in 1..Len(get_test_matrix)}

\* The "distros" section of the config file as filter_distros reads it.
FilterConfigs ==
    [preserve_on_failure : {FALSE}, concurrent_vms : {1},
     include : {{}, {"ubuntu", "debian"}, {"rocky", "fedora"}},
     exclude : {{}, {"debian"}, {"ubuntu", "centos"}}]

\* The lists main hands to filter_distros: the whole matrix, or the entries
\* named by --distros.
FilterInputs ==
    {get_test_matrix} \cup
    {SelectSeq(get_test_matrix, LAMBDA d : d.distro \in list) : list \in DistrosArgs}

\* Values of --distro / --family: none, a bare name, or distro:version.
CliFilters ==
    {NoFilter} \cup {<<n>> : n \in DistroNames \cup FamilyFilters \cup {"rhel"}}
    \cup {<<n, ":", v>> : n \in {"ubuntu", "debian", "fedora"},
                          v \in {"22.04", "12", "40", "8"}}

\* runner.filter_distros(distros, distro_filter)
FilterDistrosCall ==
    /\ call.fn = "filter_distros" /\ call.pc = "called"
    /\ call' = [call EXCEPT !.pc = "returned",
                            !.result = filter_distros(call.distros, config,
                                                      call.distro_filter)]
    /\ UNCHANGED <<config, distros, task, tracing, mainVars, rtVars>>

\* ===================================================================
\* health_checker.py: HealthChecker

MaxAttempts == 3

\* What "mdatp health --output json" can leave for get_health_json: the
\* command does not run or times out, prints nothing, prints text that is
\* not JSON, prints the JSON null, prints a JSON value that is neither null
\* nor an object, or prints an object.  A field of the object is absent
\* ("absent"), the JSON null, or a JSON boolean; definitionsStatus is absent,
\* not an object, an object without $type, or an object with that $type.
HealthObjects ==
    [kind : {"object"}, healthy : {"absent", "null", "true", "false"},
     licensed : {"absent", "null", "true", "false"},
     definitionsStatus : {"absent", "not_a_dict", "no_type", "outOfDate", "upToDate"}]
CommandOutputs ==
    {[kind |-> k] : k \in {"failed", "empty", "not_json", "null", "array"}}
    \cup HealthObjects

\* get_health_json(): None unless stdout is JSON other than null.
NoJson == [kind |-> "None"]
get_health_json(stdout) ==
    IF stdout.kind \in {"failed", "empty", "not_json", "null"} THEN NoJson ELSE stdout

\* parse_health(health_json) for an object: .get(field, False) of the three
\* fields is_healthy reads.
parse_health_LicensedDefault(health_json) ==
    HealthStatus(health_json.healthy = "true",
                 health_json.licensed \in {"true", "absent"},
                 health_json.definitionsStatus = "upToDate")
parse_health(health_json) ==
    HealthStatus(health_json.healthy = "true",
                 health_json.licensed = "true",
                 health_json.definitionsStatus = "upToDate")

\* check_health(): None, a status, or the AttributeError of .get on a JSON
\* value that is not an object.
AttributeError == [raised |-> "AttributeError"]
check_health(stdout) ==
    LET health_json == get_health_json(stdout)
    IN IF health_json = NoJson THEN NoHealth
       ELSE IF health_json.kind # "object" THEN AttributeError
       ELSE parse_health(health_json)

\* The test "health and health.is_healthy()".
healthy_now(health) == health # NoHealth /\ is_healthy(health)

\* The loop of wait_for_health stops after the attempt that is healthy or is
\* the last one.
loop_ends(health, attempt, n) == healthy_now(health) \/ attempt >= n

\* One iteration of the loop of wait_for_health: a probe, the return of a
\* healthy status, the sleep before the next attempt, and the return of the
\* last status after the last attempt.  seen is the list of what the probes
\* returned and sleeps counts the calls of time.sleep.
WaitForHealthStep ==
    /\ call.fn = "wait_for_health" /\ call.pc = "loop"
    /\ \E stdout \in CommandOutputs :
         LET health == check_health(stdout)
             probed == [call EXCEPT !.seen = Append(@, health)]
         IN call' =
              IF health = AttributeError
              THEN [probed EXCEPT !.pc = "raised"]
              ELSE IF loop_ends(health, call.attempt, call.max_attempts)
              THEN [probed EXCEPT !.pc = "returned", !.result = health]
              ELSE [probed EXCEPT !.attempt = @ + 1, !.sleeps = @ + 1]
    /\ UNCHANGED <<config, distros, task, tracing, mainVars, rtVars>>

\* HealthChecker.parse_health(health_json) called with an object.
ParseHealthCall ==
    /\ call.fn = "parse_health" /\ call.pc = "called"
    /\ call' = [call EXCEPT !.pc = "returned", !.result = parse_health(call.health_json)]
    /\ UNCHANGED <<config, distros, task, tracing, mainVars, rtVars>>

\* ===================================================================
\* VagrantRunner.offboard

\* Text is a sequence of characters.  str.lower() and str.strip() on it.
UpperCase ==
    <<"A", "B", "C", "D", "E", "F", "G", "H", "I", "J", "K", "L", "M", "N", "O", "P", "Q", "R", "S", "T", "U", "V", "W", "X", "Y", "Z">>
LowerCase ==
    <<"a", "b", "c", "d", "e", "f", "g", "h", "i", "j", "k", "l", "m", "n", "o", "p", "q", "r", "s", "t", "u", "v", "w", "x", "y", "z">>
lower_char(c) ==
    IF \E i \in 1..Len(UpperCase) : UpperCase[i] = c
    THEN LowerCase[CHOOSE i \in 1..Len(UpperCase) : UpperCase[i] = c]
    ELSE c
lower(text) == [i \in 1..Len(text) |-> lower_char(text[i])]
Whitespace == {" ", "\t", "\n", "\r"}
strip(text) ==
    LET inner == {i \in 1..Len(text) : text[i] \notin Whitespace}
    IN IF inner = {} THEN <<>>
       ELSE SubSeq(text, CHOOSE i \in inner : \A j \in inner : i <= j,
                         CHOOSE i \in inner : \A j \in inner : i >= j)

\* What "mdatp health --field onboarded" may print: a word between leading
\* and trailing white space.
QueryWords ==
    {<<"t", "r", "u", "e">>,
     <<"T", "r", "u", "e">>,
     <<"T", "R", "U", "E">>,
     <<"f", "a", "l", "s", "e">>,
     <<"F", "a", "l", "s", "e">>,
     <<>>,
     <<"t", "r", "u", "e", "e">>,
     <<"t", "r", "u">>,
     <<"t", " ", "r", "u", "e">>,
     <<"t", "r", "u", "e", " ", "t", "r", "u", "e">>,
     <<"N", "o", " ", "l", "i", "c", "e", "n", "s", "e", " ", "f", "o", "u", "n", "d">>}
QueryOutputs ==
    LET QueryPads == {<<>>, <<" ">>, <<"\n">>, <<"\t", " ">>}
    IN {l \o w \o r : l \in QueryPads, w \in QueryWords, r \in QueryPads}

\* The verdict of offboard on the stdout of the status query: only "true"
\* means still onboarded.
query_verdict_OnlyFalse(stdout) == lower(strip(stdout)) = <<"f", "a", "l", "s", "e">>
query_verdict(stdout) == lower(strip(stdout)) # <<"t", "r", "u", "e">>

\* Step 1 of offboard: sudo cp of the offboarding file into the VM.  A
\* non-zero exit returns False, an exception (a timeout included) is caught
\* and returns False, else time.sleep(10) and step 2.
OffboardCopy ==
    /\ call.fn = "offboard" /\ call.pc = "copy"
    /\ \E outcome \in {"ok", "failed", "raised"} :
         call' = IF outcome = "ok"
                 THEN [call EXCEPT !.pc = "query", !.copy = outcome]
                 ELSE [call EXCEPT !.pc = "returned", !.copy = outcome, !.result = FALSE]
    /\ UNCHANGED <<config, distros, task, tracing, mainVars, rtVars>>

\* Step 2 of offboard: the status query and the verdict on its output; the
\* exit code of the query is not read.
OffboardQuery ==
    /\ call.fn = "offboard" /\ call.pc = "query"
    /\ \/ call' = [call EXCEPT !.pc = "returned", !.query = "raised", !.result = FALSE]
       \/ \E stdout \in QueryOutputs :
            call' = [call EXCEPT !.pc = "returned", !.query = "ok", !.stdout = stdout,
                                 !.result = query_verdict(stdout)]
    /\ UNCHANGED <<config, distros, task, tracing, mainVars, rtVars>>

\* ===================================================================
\* TestRunner.validate_secret_files called on its own

\* validate_secret_files() with secrets the keys the .env file defines and
\* files the keys whose value names a file that exists under tests/e2e.
ValidateSecretFilesCall ==
    /\ call.fn = "validate_secret_files" /\ call.pc = "called"
    /\ call' = [call EXCEPT !.pc = "returned",
                            !.result = validate_secret_files(call.secrets, call.files)]
    /\ UNCHANGED <<config, distros, task, tracing, mainVars, rtVars>>

\* ===================================================================
\* results_formatter.py: ResultsFormatter

MaxResults == 3

\* Python compares strings character by character on their code points.  A
\* string of the model is spelled out here to be compared that way.
Digits == <<"0", "1", "2", "3", "4", "5", "6", "7", "8", "9">>
IndexIn(seq, c) == CHOOSE i \in 1..Len(seq) : seq[i] = c
ord(c) ==
    IF \E i \in 1..Len(Digits) : Digits[i] = c THEN 47 + IndexIn(Digits, c)
    ELSE IF \E i \in 1..Len(LowerCase) : LowerCase[i] = c THEN 96 + IndexIn(LowerCase, c)
    ELSE 46
Spelling ==
    ("debian" :> <<"d", "e", "b", "i", "a", "n">>) @@
    ("ubuntu" :> <<"u", "b", "u", "n", "t", "u">>) @@
    ("9" :> <<"9">>) @@ ("10" :> <<"1", "0">>) @@
    ("22.04" :> <<"2", "2", ".", "0", "4">>) @@
    ("almalinux" :> <<"a", "l", "m", "a", "l", "i", "n", "u", "x">>) @@
    ("amzn" :> <<"a", "m", "z", "n">>) @@
    ("centos" :> <<"c", "e", "n", "t", "o", "s">>) @@
    ("fedora" :> <<"f", "e", "d", "o", "r", "a">>) @@
    ("ol" :> <<"o", "l">>) @@
    ("rocky" :> <<"r", "o", "c", "k", "y">>) @@
    ("2" :> <<"2">>) @@ ("8" :> <<"8">>) @@ ("11" :> <<"1", "1">>) @@
    ("12" :> <<"1", "2">>) @@ ("2023" :> <<"2", "0", "2", "3">>) @@
    ("39" :> <<"3", "9">>) @@ ("40" :> <<"4", "0">>) @@ ("41" :> <<"4", "1">>) @@
    ("42" :> <<"4", "2">>) @@ ("43" :> <<"4", "3">>) @@
    ("18.04" :> <<"1", "8", ".", "0", "4">>) @@
    ("20.04" :> <<"2", "0", ".", "0", "4">>) @@
    ("24.04" :> <<"2", "4", ".", "0", "4">>) @@
    ("25.04" :> <<"2", "5", ".", "0", "4">>) @@
    ("25.10" :> <<"2", "5", ".", "1", "0">>)
\* a < b for two strings
str_lt(a, b) ==
    LET x == Spelling[a]
        y == Spelling[b]
    IN \E k \in 1..(Len(y)) :
          /\ \A i \in 1..(k - 1) : i <= Len(x) /\ x[i] = y[i]
          /\ \/ k = Len(x) + 1
             \/ k <= Len(x) /\ ord(x[k]) < ord(y[k])
\* (x.distro, x.version) < (y.distro, y.version), the sort key of the summary
key_lt(x, y) ==
    \/ str_lt(x.distro, y.distro)
    \/ x.distro = y.distro /\ str_lt(x.version, y.version)

\* sorted(results, key=...): a stable sort, here by insertion.
RECURSIVE sorted(_)
sorted_AsAdded(rs) == rs
sorted(rs) ==
    IF rs = <<>> THEN <<>>
    ELSE LET s == sorted(SubSeq(rs, 1, Len(rs) - 1))
             x == rs[Len(rs)]
             k == Cardinality({i \in 1..Len(s) : ~key_lt(x, s[i])})
         IN SubSeq(s, 1, k) \o <<x>> \o SubSeq(s, k + 1, Len(s))

\* The icon of a table cell: the check mark or the cross.
icon(passed) == IF passed THEN "check" ELSE "cross"
status_OnboardingFirst(result) ==
    IF ~result.onboarding_passed THEN <<"ONBOARDING FAILED">>
    ELSE IF ~result.install_passed
    THEN <<"FAILED: ", IF result.failure_reason = NoReason THEN "Unknown"
                       ELSE result.failure_reason>>
    ELSE IF ~result.uninstall_passed THEN <<"UNINSTALL FAILED">>
    ELSE <<"PASSED">>
\* The Status cell of a row.
status(result) ==
    IF ~result.install_passed
    THEN <<"FAILED: ", IF result.failure_reason = NoReason THEN "Unknown"
                       ELSE result.failure_reason>>
    ELSE IF ~result.onboarding_passed THEN <<"ONBOARDING FAILED">>
    ELSE IF ~result.uninstall_passed THEN <<"UNINSTALL FAILED">>
    ELSE <<"PASSED">>
\* One data row of the summary table: its cells (the duration cell is a
\* wall-clock reading and is left out).
row(result) ==
    [distro |-> result.distro, version |-> result.version,
     install_icon |-> icon(result.install_passed),
     onboard_icon |-> icon(result.onboarding_passed),
     uninstall_icon |-> icon(result.uninstall_passed), status |-> status(result)]

count_passed_AllSteps(rs) ==
    Cardinality({i \in 1..Len(rs) : rs[i].install_passed /\ rs[i].onboarding_passed})
\* sum(1 for r in self.results if r.install_passed), and the failed count
count_passed(rs) == Cardinality({i \in 1..Len(rs) : rs[i].install_passed})
count_failed(rs) == Cardinality({i \in 1..Len(rs) : ~rs[i].install_passed})

\* generate_summary_markdown(): the fixed text for no results, else the
\* heading with the counts, the table rows and the "## Failures" entries.
NoResultsText == [text |-> "# E2E Test Results\n\nNo results to report.\n"]
generate_summary_markdown(rs) ==
    IF rs = <<>> THEN NoResultsText
    ELSE LET ordered == sorted(rs)
             failures == SelectSeq(rs, LAMBDA r : ~r.install_passed \/ ~r.onboarding_passed)
         IN [text |-> "# E2E Test Results\n",
             total |-> Len(rs), passed |-> count_passed(rs), failed |-> count_failed(rs),
             rows |-> [i \in 1..Len(ordered) |-> row(ordered[i])],
             failures |-> [i \in 1..Len(failures) |->
                              <<failures[i].distro, failures[i].version>>]]

\* json.dumps writes the document as a sequence of tokens: keys and strings,
\* numbers, and the literals true, false and null.
str_token(text) == [t |-> "string", v |-> text]
num_token(n) == [t |-> "number", n |-> n]
lit_token(word) == [t |-> "literal", v |-> word]
bool_token(b) == lit_token(IF b THEN "true" ELSE "false")
entry_tokens(r) ==
    <<str_token("distro"), str_token(r.distro),
      str_token("version"), str_token(r.version),
      str_token("install_passed"), bool_token(r.install_passed),
      str_token("onboarding_passed"), bool_token(r.onboarding_passed),
      str_token("uninstall_passed"), bool_token(r.uninstall_passed),
      str_token("failure_reason"),
      IF r.failure_reason = NoReason THEN lit_token("null") ELSE str_token(r.failure_reason),
      str_token("has_logs"), bool_token(r.logs # {})>>
RECURSIVE results_tokens(_)
results_tokens(rs) ==
    IF rs = <<>> THEN <<>>
    ELSE results_tokens(SubSeq(rs, 1, Len(rs) - 1)) \o entry_tokens(rs[Len(rs)])

\* save_json_results(): the text written to results.json (the generated,
\* duration_seconds and timestamp members are wall-clock readings and are
\* left out).
save_json_results(rs) ==
    <<str_token("total"), num_token(Len(rs)),
      str_token("passed"), num_token(count_passed(rs)),
      str_token("failed"), num_token(count_failed(rs))>>
    \o results_tokens(rs)

\* json.loads of that text: the value after a key, and the document.
member(tokens, key) ==
    tokens[1 + CHOOSE i \in 1..Len(tokens) : i % 2 = 1 /\ tokens[i] = str_token(key)]
json_entry(tokens) ==
    [distro |-> member(tokens, "distro").v,
     version |-> member(tokens, "version").v,
     install_passed |-> member(tokens, "install_passed").v = "true",
     onboarding_passed |-> member(tokens, "onboarding_passed").v = "true",
     uninstall_passed |-> member(tokens, "uninstall_passed").v = "true",
     failure_reason |-> IF member(tokens, "failure_reason").t = "literal" THEN NoReason
                        ELSE member(tokens, "failure_reason").v,
     has_logs |-> member(tokens, "has_logs").v = "true"]
json_loads(tokens) ==
    LET SummaryWidth == 2 * 3   \* three members, a key and a value each
        EntryWidth == 2 * 7     \* seven members of one result
        head == SubSeq(tokens, 1, SummaryWidth)
        n == (Len(tokens) - SummaryWidth) \div EntryWidth
    IN [summary |-> [total |-> member(head, "total").n,
                     passed |-> member(head, "passed").n,
                     failed |-> member(head, "failed").n],
        results |-> [i \in 1..n |->
                        json_entry(SubSeq(tokens, SummaryWidth + (i - 1) * EntryWidth + 1,
                                          SummaryWidth + i * EntryWidth))]]

\* The results a caller can hand to add_result, on two distros and two
\* versions whose string order differs from their numeric order: the
\* results of a run and, on one key, a failed uninstall and the TestResult
\* values with a failed step whose optional failure_reason is left out.
FormatResults ==
    LET FormatKeys ==
            {[distro |-> d, version |-> v] : d \in {"debian", "ubuntu"}, v \in {"9", "10"}}
        OneKey == [distro |-> "debian", version |-> "9"]
    IN
    {TestResult(k, TRUE, TRUE, TRUE, NoReason, {}) : k \in FormatKeys} \cup
    {TestResult(k, TRUE, FALSE, TRUE, ReasonTestFailed, {}) : k \in FormatKeys} \cup
    {TestResult(k, FALSE, FALSE, FALSE, ReasonStartFailed, LogNames) : k \in FormatKeys} \cup
    {TestResult(OneKey, TRUE, TRUE, FALSE, ReasonTestFailed, {}),
     TestResult(OneKey, FALSE, FALSE, FALSE, NoReason, {}),
     TestResult(OneKey, TRUE, FALSE, TRUE, NoReason, {})}

\* ResultsFormatter.add_result(result)
AddResult ==
    /\ call = NoCall
    /\ Len(formatter) < MaxResults
    /\ \E result \in FormatResults : formatter' = add_result(formatter, result)
    /\ UNCHANGED <<config, distros, task, tracing, call, mainVars, rtpc, requested, maxc,
                   results, fut>>

\* ResultsFormatter.generate_summary_markdown()
GenerateSummaryMarkdown ==
    /\ call = NoCall
    /\ call' = [fn |-> "generate_summary_markdown",
                result |-> generate_summary_markdown(formatter)]
    /\ UNCHANGED <<config, distros, task, tracing, mainVars, rtVars>>

\* ResultsFormatter.save_json_results()
SaveJsonResults ==
    /\ call = NoCall
    /\ call' = [fn |-> "save_json_results", result |-> save_json_results(formatter)]
    /\ UNCHANGED <<config, distros, task, tracing, mainVars, rtVars>>

\* save_failure_logs(result): nothing when the result has no failure reason
\* and its install passed; else one file under failures/, named after the
\* distro and the version with "." replaced (and the time of the write),
\* holding the reason or "Unknown" and the captured logs.
NoFile == [written |-> FALSE]
save_failure_logs(result) ==
    IF result.failure_reason = NoReason /\ result.install_passed
    THEN NoFile
    ELSE [written |-> TRUE, distro |-> result.distro, version |-> result.version,
          reason |-> IF result.failure_reason = NoReason THEN "Unknown"
                     ELSE result.failure_reason,
          logs |-> result.logs]

\* ResultsFormatter.save_all(): save_failure_logs for each result in the
\* order added, then the summary and the JSON document.
SaveAll ==
    /\ call = NoCall
    /\ call' = [fn |-> "save_all",
                failures |-> [i \in 1..Len(formatter) |-> save_failure_logs(formatter[i])],
                summary |-> generate_summary_markdown(formatter),
                json |-> save_json_results(formatter)]
    /\ UNCHANGED <<config, distros, task, tracing, mainVars, rtVars>>

\* ===================================================================
\* VagrantRunner.get_logs as a dictionary

\* A log path is <<directory, file name>>; Path(log_file).name is the name.
LogPaths ==
    {<<"/var/lib/mdatp_test", "installer.log">>,
     <<"/var/lib/mdatp_test", "managed_apply.log">>,
     <<"/var/log", "installer.log">>}
\* What the command of one path does: cat prints the file and exits 0
\* ("content"), cat fails and echo prints the placeholder, exit 0
\* ("missing"), vagrant ssh exits non-zero ("nonzero"), or subprocess.run
\* raises, e.g. on its 10 s timeout ("raised").
PathOutcomes == {"content", "missing", "nonzero", "raised"}

\* logs[name] = value
put(logs, name, value) ==
    [n \in DOMAIN logs \cup {name} |-> IF n = name THEN value ELSE logs[n]]

log_entry_Placeholder(logs, path, outcome) ==
    CASE outcome = "content" -> put(logs, path[2], <<"content of", path>>)
      [] outcome = "missing" -> put(logs, path[2], <<"Log not found">>)
      [] outcome = "nonzero" -> put(logs, path[2], <<"Log not found">>)
      [] outcome = "raised" -> put(logs, path[2], <<"Error retrieving log: ">>)
\* One pass of the loop of get_logs: the stdout is stored when the command
\* exits 0, the error text when it raised, nothing when it exits non-zero.
log_entry(logs, path, outcome) ==
    CASE outcome = "content" -> put(logs, path[2], <<"content of", path>>)
      [] outcome = "missing" -> put(logs, path[2], <<"Log not found">>)
      [] outcome = "nonzero" -> logs
      [] outcome = "raised" -> put(logs, path[2], <<"Error retrieving log: ">>)

\* get_logs(log_files) with the outcome of each path's command, in order.
RECURSIVE get_logs_dict(_, _)
get_logs_dict(log_files, outcomes) ==
    IF log_files = <<>> THEN <<>>
    ELSE LET n == Len(log_files)
         IN log_entry(get_logs_dict(SubSeq(log_files, 1, n - 1), SubSeq(outcomes, 1, n - 1)),
                      log_files[n], outcomes[n])

GetLogsCall ==
    /\ call.fn = "get_logs" /\ call.pc = "called"
    /\ call' = [call EXCEPT !.pc = "returned",
                            !.result = get_logs_dict(call.log_files, call.outcomes)]
    /\ UNCHANGED <<config, distros, task, tracing, mainVars, rtVars>>

\* ===================================================================
\* VagrantRunner._get_vm_name

_get_vm_name_MajorOnly(distro, version) ==
    LET v == Spelling[version]
        dots == {i \in 1..Len(v) : v[i] = "."}
    IN <<"m", "d", "e", "-">> \o Spelling[distro] \o <<"-">> \o
       (IF dots = {} THEN v
        ELSE SubSeq(v, 1, (CHOOSE i \in dots : \A j \in dots : i <= j) - 1))
\* f"mde-{config.distro}-{config.version.replace('.', '')}", as the
\* characters of the name.
_get_vm_name(distro, version) ==
    <<"m", "d", "e", "-">> \o Spelling[distro] \o <<"-">> \o
    SelectSeq(Spelling[version], LAMBDA c : c # ".")

\* The names of the VMs of two entries of the matrix, each computed by the
\* VagrantRunner of its own run_test.
VmNamesCall ==
    /\ call.fn = "_get_vm_name" /\ call.pc = "called"
    /\ call' = [call EXCEPT
                   !.pc = "returned",
                   !.result = [i \in 1..2 |->
                                  _get_vm_name(get_test_matrix[call.entries[i]].distro,
                                               get_test_matrix[call.entries[i]].version)]]
    /\ UNCHANGED <<config, distros, task, tracing, mainVars, rtVars>>

\* ===================================================================
\* distro_parser.py: the curated table and its lookups

\* SUPPORTED_DISTROS: distro -> list of (version, scaled_version,
\* vagrant_box), in the order of the source; a box "ns/name" is <<ns, name>>.
SUPPORTED_DISTROS ==
    [ubuntu |-> << <<"18.04", "18.04", <<"generic", "ubuntu1804">> >>,
                   <<"20.04", "20.04", <<"generic", "ubuntu2004">> >>,
                   <<"22.04", "22.04", <<"generic", "ubuntu2204">> >>,
                   <<"24.04", "24.04", <<"cloud-image", "ubuntu-24.04">> >>,
                   <<"25.04", "25.04", <<"alvistack", "ubuntu-25.04">> >>,
                   <<"25.10", "25.10", <<"alvistack", "ubuntu-25.10">> >> >>,
     debian |-> << <<"12", "12", <<"local", "debian12">> >>,
                   <<"11", "11", <<"local", "debian11">> >>,
                   <<"10", "10", <<"local", "debian10">> >> >>,
     centos |-> << <<"9", "9", <<"generic", "centos9s">> >> >>,
     rocky |-> << <<"8", "8", <<"generic", "rocky8">> >>,
                  <<"9", "9", <<"generic", "rocky9">> >> >>,
     almalinux |-> << <<"8", "8", <<"generic", "alma8">> >>,
                      <<"9", "9", <<"generic", "alma9">> >> >>,
     fedora |-> << <<"39", "8", <<"generic", "fedora39">> >>,
                   <<"40", "8", <<"local", "fedora40">> >>,
                   <<"41", "8", <<"local", "fedora41">> >>,
                   <<"42", "8", <<"alvistack", "fedora-42">> >>,
                   <<"43", "8", <<"local", "fedora43">> >> >>,
     ol |-> << <<"8", "8", <<"generic", "oracle8">> >>,
               <<"9", "9", <<"generic", "oracle9">> >> >>,
     amzn |-> << <<"2", "2", <<"crystax", "amazon2">> >>,
                 <<"2023", "2023", <<"crystax", "amazon2023">> >> >>]

\* The rows of the table a lookup of (distro, version) walks over and
\* matches: `if distro in self.distros: for v, ... : if v == version`.
registered(distro, version) ==
    IF distro \in DOMAIN SUPPORTED_DISTROS
    THEN SelectSeq(SUPPORTED_DISTROS[distro], LAMBDA tuple : tuple[1] = version)
    ELSE <<>>

get_scaled_version_Unscaled(distro, version) == version
\* get_scaled_version: the scaled version of the first matching row, else
\* the version itself.
get_scaled_version(distro, version) ==
    IF registered(distro, version) # <<>>
    THEN Head(registered(distro, version))[2]
    ELSE version

\* get_vagrant_box: the box of the first matching row, else
\* f"generic/{distro}{version}", kept as <<"generic", distro, version>>.
get_vagrant_box(distro, version) ==
    IF registered(distro, version) # <<>>
    THEN Head(registered(distro, version))[3]
    ELSE <<"generic", distro, version>>

\* One caller asking for both values of a (distro, version) pair.
LookupCall ==
    /\ call.fn = "lookup" /\ call.pc = "called"
    /\ call' = [call EXCEPT !.pc = "returned",
                            !.scaled = get_scaled_version(call.distro, call.version),
                            !.box = get_vagrant_box(call.distro, call.version)]
    /\ UNCHANGED <<config, distros, task, tracing, mainVars, rtVars>>

\* ===================================================================
\* The library functions called on their own

\* One call of filter_distros, wait_for_health, parse_health, offboard,
\* validate_secret_files, the two lookups of distro_parser, get_logs or
\* _get_vm_name with its arguments, or a fresh ResultsFormatter.
\* Only filter_distros reads the config.
InitLib ==
    /\ call \in
          [fn : {"filter_distros"}, pc : {"called"}, distros : FilterInputs,
           distro_filter : CliFilters, result : {<<>>}]
          \cup [fn : {"wait_for_health"}, pc : {"loop"}, max_attempts : 1..MaxAttempts,
                attempt : {1}, sleeps : {0}, seen : {<<>>}, result : {NoHealth}]
          \cup [fn : {"parse_health"}, pc : {"called"}, health_json : HealthObjects,
                result : {NoHealth}]
          \cup [fn : {"offboard"}, pc : {"copy"}, copy : {"none"}, query : {"none"},
                stdout : {<<>>}, result : {FALSE}]
          \cup [fn : {"validate_secret_files"}, pc : {"called"},
                secrets : SUBSET SecretKeys, files : SUBSET SecretKeys, result : {FALSE}]
          \cup [fn : {"lookup"}, pc : {"called"},
                distro : DistroNames \cup {"rhel", "sles"},
                version : {get_test_matrix[i].version : i \in 1..Len(get_test_matrix)}
                              \cup {"7", "15"},
                scaled : {""}, box : {<<>>}]
          \cup UNION {[fn : {"get_logs"}, pc : {"called"}, log_files : [1..n -> LogPaths],
                        outcomes : [1..n -> PathOutcomes], result : {<<>>}] : n \in 0..2}
          \cup [fn : {"_get_vm_name"}, pc : {"called"},
                entries : [1..2 -> 1..Len(get_test_matrix)], result : {<<>>}]
          \cup {NoCall}
    /\ config \in IF call.fn = "filter_distros" THEN FilterConfigs
                  ELSE {c \in FilterConfigs : c.include = {} /\ c.exclude = {}}
    /\ formatter = <<>>
    /\ RunnerAtRest

NextLib ==
    \/ FilterDistrosCall
    \/ WaitForHealthStep
    \/ ParseHealthCall
    \/ OffboardCopy
    \/ OffboardQuery
    \/ ValidateSecretFilesCall
    \/ LookupCall
    \/ GetLogsCall
    \/ VmNamesCall
    \/ AddResult
    \/ GenerateSummaryMarkdown
    \/ SaveJsonResults
    \/ SaveAll

SpecLib == InitLib /\ [][NextLib]_vars

\* ===================================================================
\* Properties of one run_test call (checked under SpecTest)
\* ===================================================================
Calls(ops, name) == {i \in 1..Len(ops) : ops[i].op = name}
Raised(ops) == {i \in 1..Len(ops) : ops[i].out = "raised"}
Healthy(h) == h # NoHealth /\ is_healthy(h)
Probes(ops) == SelectSeq(ops, LAMBDA o : o.op = "check_health")
Returned(t) == task[t].pc \in {"done", "raised"}

\* C1: when preserve_on_failure is not enabled, a run_test call that has
\* returned has called destroy exactly once and as the last of its VM calls,
\* on every exit path; before it returns destroy has not been called.
C1_DestroyOnceLast ==
    \A t \in TaskIds :
        ~config.preserve_on_failure =>
            LET ops == task[t].ops
            IN /\ Returned(t) =>
                    /\ Cardinality(Calls(ops, "destroy")) = 1
                    /\ ops[Len(ops)].op = "destroy"
               /\ ~Returned(t) => Calls(ops, "destroy") = {}

\* An exception raised by uninstall, after setup, a probe and offboard: the
\* VM is destroyed after all of them.
C1_Witness ==
    \E t \in TaskIds :
        /\ task[t].pc = "done" /\ ~config.preserve_on_failure
        /\ task[t].result.failure_reason = ReasonException
        /\ Calls(task[t].ops, "uninstall") # {}
        /\ task[t].ops[Len(task[t].ops)].op = "destroy"

\* C2: every TestResult run_test produces has failure_reason set iff not
\* (install_passed and onboarding_passed and uninstall_passed).
C2_FailureReasonIff ==
    \A t \in TaskIds :
        LET r == task[t].result
        IN r # NoResult =>
              ((r.failure_reason # NoReason) <=>
                  ~(r.install_passed /\ r.onboarding_passed /\ r.uninstall_passed))

\* A result of the normal path with all three steps passed and no reason.
C2_Witness ==
    \E t \in TaskIds :
        /\ task[t].pc = "done"
        /\ task[t].result.install_passed /\ task[t].result.onboarding_passed
        /\ task[t].result.uninstall_passed
        /\ task[t].result.failure_reason = NoReason

\* C6: an exception raised by a call of run_test does not leave run_test: it
\* becomes a result with the three flags false and the exception's text.
C6_ExceptionBecomesResult ==
    \A t \in TaskIds :
        Raised(task[t].ops) # {} =>
            /\ ~task[t].exc
            /\ task[t].pc \in {"finally", "done"}
            /\ task[t].result = FailedResult(distros[t], ReasonException)

\* run_test has returned after its first call, setup_vm, raised.
C6_Witness ==
    \E t \in TaskIds :
        /\ task[t].pc = "done"
        /\ task[t].ops[1].op = "setup_vm" /\ task[t].ops[1].out = "raised"

SlowSetup(t) ==
    /\ task[t].pc = "done"
    /\ task[t].ops[1].op = "setup_vm"
    /\ task[t].ops[1].secs > VM_TIMEOUT_SECONDS
NoOffboardUninstall(t) ==
    Calls(task[t].ops, "offboard") \cup Calls(task[t].ops, "uninstall") = {}

\* C7 as stated: whenever setup_vm took longer than the budget the result has
\* install_passed false and a Timeout reason, and offboard and uninstall were
\* not attempted.
C7_AsClaimed ==
    \A t \in TaskIds :
        SlowSetup(t) =>
            /\ ~task[t].result.install_passed
            /\ task[t].result.failure_reason \in TimeoutReasons
            /\ NoOffboardUninstall(t)

\* C7 amended: when setup_vm took longer than the budget, install_passed is
\* false and offboard and uninstall are not attempted; the reason is the setup
\* Timeout when setup_vm reported success, and "Failed to start VM" when it
\* reported failure.
C7_SlowSetup ==
    \A t \in TaskIds :
        SlowSetup(t) =>
            /\ ~task[t].result.install_passed
            /\ NoOffboardUninstall(t)
            /\ task[t].ops[1].out = "ok" =>
                  task[t].result.failure_reason = ReasonTimeoutSetup
            /\ task[t].ops[1].out = "failed" =>
                  task[t].result.failure_reason = ReasonStartFailed

\* setup_vm reported success after more than the budget.
C7_Witness ==
    \E t \in TaskIds :
        /\ SlowSetup(t) /\ task[t].ops[1].out = "ok"
        /\ task[t].result.failure_reason = ReasonTimeoutSetup

\* C8: check_health is called at most 3 times; restart_mdatp is called only
\* directly after a probe that was not healthy and that was not the third (at
\* most 2 restarts); after the first healthy probe there is no probe and no
\* restart.
C8_ProbeRetryPolicy ==
    \A t \in TaskIds :
        LET ops == task[t].ops
            probes == Calls(ops, "check_health")
            restarts == Calls(ops, "restart_mdatp")
        IN /\ Cardinality(probes) <= 3
           /\ Cardinality(restarts) <= 2
           /\ \A i \in restarts :
                 /\ i > 1 /\ (i - 1) \in probes
                 /\ ops[i - 1].out = "returned" /\ ~Healthy(ops[i - 1].health)
                 /\ Cardinality({j \in probes : j < i}) < 3
           /\ \A i \in probes :
                 Healthy(ops[i].health) =>
                     \A j \in probes \cup restarts : j <= i

\* Three probes, none healthy, with the two restarts between them.
C8_Witness ==
    \E t \in TaskIds :
        /\ task[t].pc = "done"
        /\ Cardinality(Calls(task[t].ops, "check_health")) = 3
        /\ Cardinality(Calls(task[t].ops, "restart_mdatp")) = 2
        /\ \A i \in Calls(task[t].ops, "check_health") : ~Healthy(task[t].ops[i].health)

\* The scenario of C9: nothing raised, three probes, the first two with the
\* daemon running and not onboarded, the third with every field true.
C9_Scenario(t) ==
    LET ps == Probes(task[t].ops)
    IN /\ task[t].pc = "done"
       /\ Raised(task[t].ops) = {}
       /\ Len(ps) = 3
       /\ \A i \in {1, 2} :
             /\ ps[i].health # NoHealth
             /\ ps[i].health.daemon_running /\ ~ps[i].health.onboarded
       /\ ps[3].health = HealthStatus(TRUE, TRUE, TRUE)

\* C9: in that scenario the result has install_passed and onboarding_passed
\* true and restart_mdatp was called exactly twice, once between each two
\* consecutive probes.
C9_TwoRestartsThenPass ==
    \A t \in TaskIds :
        C9_Scenario(t) =>
            /\ task[t].result.install_passed
            /\ task[t].result.onboarding_passed
            /\ Cardinality(Calls(task[t].ops, "restart_mdatp")) = 2
            /\ [i \in 1..6 |-> task[t].ops[i].op] =
                  <<"setup_vm", "check_health", "restart_mdatp", "check_health",
                    "restart_mdatp", "check_health">>

C9_Witness == \E t \in TaskIds : C9_Scenario(t)

\* ===================================================================
\* Properties of the process (checked under Spec)
\* ===================================================================
ResultsFor(d, res) ==
    {j \in 1..Len(res) : res[j].distro = d.distro /\ res[j].version = d.version}
InstallPassedFor(ds, res) ==
    \A i \in 1..Len(ds) : \E j \in ResultsFor(ds[i], res) : res[j].install_passed

\* C3 as stated: the process exits with 0 iff config and secrets loaded, the
\* selection is not empty and install passed for every selected distro; it
\* exits with 1 in every other case.
C3_AsClaimed ==
    mpc = "exit" =>
        /\ exitCode \in {0, 1}
        /\ exitCode = 0 <=>
              /\ {"config", "secrets"} \subseteq loaded
              /\ selected # <<>>
              /\ InstallPassedFor(selected, results)

\* C3 amended: the process exits with 0 iff config and secrets loaded, the
\* selection is not empty, and either --dry-run was given or some selected
\* distro is left after box building, run_tests returned and install passed
\* for every distro that is left; it exits with 1 in every other case.
C3_ExitCode ==
    mpc = "exit" =>
        /\ exitCode \in {0, 1}
        /\ exitCode = 0 <=>
              /\ {"config", "secrets"} \subseteq loaded
              /\ selected # <<>>
              /\ \/ dryRun
                 \/ /\ distros # <<>>
                    /\ rtpc = "returned"
                    /\ InstallPassedFor(distros, results)

\* Exit code 0 without --dry-run although a selected distro was dropped
\* because its box could not be built.
C3_Witness ==
    /\ mpc = "exit" /\ exitCode = 0 /\ ~dryRun
    /\ Len(distros) < Len(selected)
    /\ Len(results) = Len(distros)

VmTouched ==
    \/ built # {}
    \/ rtpc # "none"
    \/ results # <<>>
    \/ \E t \in TaskIds : task[t].pc # "idle"

\* C10: a box is built or a VM operation issued only after load_config,
\* load_secrets and validate_secret_files have all succeeded; when one of
\* them fails the process exits with code 1 and no box or VM was touched.
C10_NoVmBeforeSecrets ==
    /\ VmTouched => loaded = Loaders
    /\ (mpc = "exit" /\ loaded # Loaders) => (exitCode = 1 /\ ~VmTouched)

\* All three have succeeded, a box was built and a VM is being probed.
C10_Witness ==
    /\ loaded = Loaders
    /\ built # {}
    /\ \E t \in TaskIds : task[t].pc = "probe"

\* ===================================================================
\* Properties of one run_tests call (checked under SpecPar)
\* ===================================================================
InProgress == {t \in TaskIds : task[t].pc # "idle"}

C5_OneResultPerDistro ==
    /\ rtpc = "returned" =>
          /\ Len(results) = Len(distros)
          /\ \A i \in 1..Len(distros) :
                Cardinality(ResultsFor(distros[i], results)) = 1
    /\ rtpc \in {"sequential", "submit", "as_completed"} => ENABLED NextPar

\* run_tests has returned three results, an exception's result and a timeout's
\* result among them, followed by one with install passed.
C5_Witness ==
    /\ rtpc = "returned" /\ Len(results) = 3
    /\ \E i, j, k \in 1..3 :
          /\ i < k /\ j < k
          /\ results[i].failure_reason = ReasonException
          /\ results[j].failure_reason \in TimeoutReasons
          /\ results[k].install_passed

\* ===================================================================
\* The exit code of a completed run (checked under Spec)

\* C11: once run_tests has returned and the process has exited, the exit
\* code is 0 when every result has install_passed true, whatever the
\* onboarding_passed and uninstall_passed flags are, and it is 1 when some
\* result has install_passed false.
C11_ExitByInstallOnly ==
    (mpc = "exit" /\ rtpc = "returned") =>
        /\ (\A i \in 1..Len(results) : results[i].install_passed) => exitCode = 0
        /\ (\E i \in 1..Len(results) : ~results[i].install_passed) => exitCode = 1

\* Exit code 0 with one result whose onboarding failed and one whose
\* uninstall failed.
C11_Witness ==
    /\ mpc = "exit" /\ rtpc = "returned" /\ exitCode = 0
    /\ \E i \in 1..Len(results) : ~results[i].onboarding_passed
    /\ \E i \in 1..Len(results) : ~results[i].uninstall_passed

\* ===================================================================
\* Properties of filter_distros (checked under SpecLib)
Filtered == call.fn = "filter_distros" /\ call.pc = "returned"
InConfig(d, cfg) ==
    /\ cfg.include # {} => d.distro \in cfg.include
    /\ cfg.exclude # {} => d.distro \notin cfg.exclude
Satisfies(d, cfg, f) == InConfig(d, cfg) /\ (f # NoFilter => cli_matches(d, f))

\* C12: filter_distros returns exactly the entries of its input that are in
\* the include list (when one is configured), are not in the exclude list
\* (when one is configured) and match the CLI filter (when one is given);
\* each of the six orders of applying the three filters gives that result;
\* and with include {ubuntu, debian}, no exclude list and the filter
\* ubuntu:22.04 over the curated matrix exactly one entry remains.
C12_FilterIntersection ==
    Filtered =>
        LET ds == call.distros
            f == call.distro_filter
            I(x) == include_filter(x, config)
            E(x) == exclude_filter(x, config)
            C(x) == cli_filter(x, f)
        IN /\ call.result = SelectSeq(ds, LAMBDA d : Satisfies(d, config, f))
           /\ {C(E(I(ds))), C(I(E(ds))), E(C(I(ds))), E(I(C(ds))), I(C(E(ds))),
               I(E(C(ds)))} = {call.result}
           /\ (/\ ds = get_test_matrix
               /\ config.include = {"ubuntu", "debian"} /\ config.exclude = {}
               /\ f = <<"ubuntu", ":", "22.04">>) => Len(call.result) = 1

\* The claim's example: include {ubuntu, debian} and the filter ubuntu:22.04
\* over the curated matrix leave the one entry ubuntu 22.04.
C12_Witness ==
    /\ Filtered
    /\ call.distros = get_test_matrix
    /\ config.include = {"ubuntu", "debian"} /\ config.exclude = {}
    /\ call.distro_filter = <<"ubuntu", ":", "22.04">>
    /\ Len(call.result) = 1 /\ call.result[1].version = "22.04"

Families == {get_test_matrix[i].family : i \in 1..Len(get_test_matrix)}
Unfiltered == Filtered /\ config.include = {} /\ config.exclude = {}

\* C13 as stated: with no config include/exclude, a bare filter that is a
\* distro name of the curated matrix returns exactly the entries of that
\* distro, a family name returns exactly the entries of that family, and
\* distro:version returns exactly the entries matching both parts.
C13_AsClaimed ==
    Unfiltered =>
        LET ds == call.distros
            f == call.distro_filter
        IN /\ (Len(f) = 1 /\ f[1] \in DistroNames) =>
                  call.result = SelectSeq(ds, LAMBDA d : d.distro = f[1])
           /\ (Len(f) = 1 /\ f[1] \in Families \cup FamilyFilters) =>
                  call.result = SelectSeq(ds, LAMBDA d : d.family = f[1])
           /\ (Len(f) = 3 /\ f[2] = ":") =>
                  call.result = SelectSeq(ds, LAMBDA d : d.distro = f[1] /\ d.version = f[3])

\* The bare filter debian over the curated matrix also returns the ubuntu
\* entries.
C13_Witness ==
    /\ Unfiltered
    /\ call.distros = get_test_matrix
    /\ call.distro_filter = <<"debian">>
    /\ \E i \in 1..Len(call.result) : call.result[i].distro = "ubuntu"

\* ===================================================================
\* Properties of HealthChecker (checked under SpecLib)
Waiting == call.fn = "wait_for_health"
Unhealthy(h) == h # NoHealth /\ h # AttributeError /\ ~is_healthy(h)

\* C14 as stated: wait_for_health never raises; it makes at most
\* max_attempts probes and the loop goes on only while fewer were made; it
\* returns what the last probe returned, no earlier probe having been
\* healthy; that status is healthy, or max_attempts probes and
\* max_attempts - 1 sleeps were made; and with max_attempts = 3 and probes
\* that all return an unhealthy status it returns a status, not None, after
\* 3 probes.
C14_AsClaimed ==
    Waiting =>
        LET n == Len(call.seen)
        IN /\ call.pc # "raised"
           /\ n <= call.max_attempts
           /\ call.pc = "loop" => n < call.max_attempts
           /\ call.pc = "returned" =>
                 /\ n >= 1 /\ call.result = call.seen[n]
                 /\ \A i \in 1..(n - 1) : ~healthy_now(call.seen[i])
                 /\ \/ healthy_now(call.result) /\ call.sleeps = n - 1
                    \/ n = call.max_attempts /\ call.sleeps = call.max_attempts - 1
                 /\ (call.max_attempts = 3 /\ \A i \in 1..n : Unhealthy(call.seen[i])) =>
                        n = 3 /\ call.result # NoHealth

\* wait_for_health has raised at its second probe, whose output was JSON
\* but not an object.
C14_Witness ==
    /\ Waiting /\ call.pc = "raised"
    /\ Len(call.seen) = 2 /\ call.seen[2] = AttributeError

Parsed == call.fn = "parse_health" /\ call.pc = "returned"

\* C15: is_healthy is true exactly for the status whose daemon_running,
\* onboarded and definitions_updated are all true; and in the status that
\* parse_health builds, an absent healthy field makes daemon_running false,
\* an absent licensed field makes onboarded false, an absent definitionsStatus
\* or one whose $type is not upToDate makes definitions_updated false, and
\* each of these makes is_healthy false.
C15_HealthyIffAllThree ==
    /\ \A h \in AllHealth : is_healthy(h) <=> h = HealthStatus(TRUE, TRUE, TRUE)
    /\ Parsed =>
          LET j == call.health_json
              h == call.result
          IN /\ j.healthy = "absent" => ~h.daemon_running /\ ~is_healthy(h)
             /\ j.licensed = "absent" => ~h.onboarded /\ ~is_healthy(h)
             /\ j.definitionsStatus # "upToDate" =>
                    ~h.definitions_updated /\ ~is_healthy(h)
             /\ is_healthy(h) <=>
                    j.healthy = "true" /\ j.licensed = "true" /\ j.definitionsStatus = "upToDate"

\* parse_health of an object that only lacks the licensed field: the daemon
\* runs and the definitions are up to date, yet the status is not healthy.
C15_Witness ==
    /\ Parsed
    /\ call.health_json.healthy = "true" /\ call.health_json.licensed = "absent"
    /\ call.health_json.definitionsStatus = "upToDate"
    /\ call.result.daemon_running /\ call.result.definitions_updated
    /\ ~is_healthy(call.result)

\* ===================================================================
\* Properties of VagrantRunner.offboard (checked under SpecLib)
OffboardReturned == call.fn = "offboard" /\ call.pc = "returned"
SaysTrue(text) ==
    \E a \in 0..Len(text) :
        /\ a + 4 <= Len(text)
        /\ \A i \in 1..Len(text) : (i <= a \/ i > a + 4) => text[i] \in Whitespace
        /\ text[a + 1] \in {"t", "T"} /\ text[a + 2] \in {"r", "R"}
        /\ text[a + 3] \in {"u", "U"} /\ text[a + 4] \in {"e", "E"}

\* C16: offboard returns false when the copy fails, when the copy or the
\* query raises or times out, and when the query output is the word true in
\* any letter case between white space; it returns true for every other
\* query output; and the query is issued only after a successful copy.
C16_OffboardVerdict ==
    /\ (call.fn = "offboard" /\ (call.query # "none" \/ call.pc = "query")) =>
          call.copy = "ok"
    /\ OffboardReturned =>
          /\ call.copy \in {"failed", "raised"} => ~call.result
          /\ call.query = "raised" => ~call.result
          /\ call.query = "ok" => (call.result <=> ~SaysTrue(call.stdout))

\* offboard has returned false on the output "True" followed by a newline.
C16_Witness ==
    /\ OffboardReturned /\ call.copy = "ok" /\ call.query = "ok"
    /\ call.stdout = <<"T", "r", "u", "e", "\n">>
    /\ ~call.result

\* ===================================================================
\* Properties of validate_secret_files (checked under SpecLib)
Validated == call.fn = "validate_secret_files" /\ call.pc = "returned"
Referenced == call.secrets
MissingFiles == {key \in Referenced : key \notin call.files}

\* C17 as stated: validate_secret_files returns true only if the file of
\* every key the secrets define (onboarding, managed config, and offboarding
\* when defined) exists; it returns false when a required key is missing or
\* a referenced file does not exist.
C17_AsClaimed ==
    Validated =>
        /\ call.result => MissingFiles = {}
        /\ (~(file_keys \subseteq call.secrets) \/ MissingFiles # {}) => ~call.result

\* C17 amended: validate_secret_files returns true exactly when the
\* onboarding and the managed-config key are both defined and their files
\* exist; whether the offboarding key is defined and whether its file exists
\* does not change the verdict.
C17_RequiredFilesOnly ==
    Validated =>
        /\ call.result <=> (file_keys \subseteq call.secrets /\ MissingFiles \cap file_keys = {})
        /\ call.result = validate_secret_files(call.secrets \ {"OFFBOARDING_FILE"},
                                               call.files \ {"OFFBOARDING_FILE"})

\* validate_secret_files has returned true although the secrets reference an
\* offboarding file that does not exist.
C17_Witness ==
    /\ Validated /\ call.result
    /\ "OFFBOARDING_FILE" \in MissingFiles

\* ===================================================================
\* Provisioning inside run_test (checked under SpecTest)
SetupFailed(t) ==
    /\ Len(task[t].ops) >= 1
    /\ task[t].ops[1].op = "setup_vm" /\ task[t].ops[1].out = "failed"

\* C18: a run_test call calls setup_vm at most once, as its first VM call,
\* and exactly once by the time it has returned; when setup_vm has reported
\* failure the call makes no health probe, restart, offboard, uninstall or
\* log collection, and it returns a result for its distro with the three
\* pass flags false and a failure reason.
C18_SetupOnceNoRetry ==
    \A t \in TaskIds :
        LET ops == task[t].ops
        IN /\ Calls(ops, "setup_vm") \subseteq {1}
           /\ Returned(t) => Calls(ops, "setup_vm") = {1}
           /\ SetupFailed(t) =>
                 /\ \A i \in 2..Len(ops) : ops[i].op = "destroy"
                 /\ Returned(t) =>
                       /\ task[t].pc = "done"
                       /\ task[t].result.distro = distros[t].distro
                       /\ task[t].result.version = distros[t].version
                       /\ ~task[t].result.install_passed
                       /\ ~task[t].result.onboarding_passed
                       /\ ~task[t].result.uninstall_passed
                       /\ task[t].result.failure_reason # NoReason

\* A run_test call has returned after setup_vm reported failure: its only
\* other VM call is destroy and the reason is "Failed to start VM".
C18_Witness ==
    \E t \in TaskIds :
        /\ task[t].pc = "done" /\ SetupFailed(t)
        /\ Len(task[t].ops) = 2 /\ task[t].ops[2].op = "destroy"
        /\ task[t].result.failure_reason = ReasonStartFailed

\* ===================================================================
\* Properties of ResultsFormatter (checked under SpecLib)
Summarised == call.fn = "generate_summary_markdown"
RowsOf(rs) == [i \in 1..Len(rs) |-> row(rs[i])]
Occurrences(seq, x) == Cardinality({i \in 1..Len(seq) : seq[i] = x})

\* C19: generate_summary_markdown returns the fixed "No results to report"
\* text when no result was added; otherwise its table has as many data rows
\* as results were added, each result's row occurring as often as the result
\* was added, and the rows are in ascending order of (distro, version), the
\* keys compared as strings, in whatever order the results were added.
C19_SummaryRows ==
    Summarised =>
        IF formatter = <<>> THEN call.result = NoResultsText
        ELSE LET rows == call.result.rows
             IN /\ call.result # NoResultsText
                /\ Len(rows) = Len(formatter)
                /\ \A i \in 1..Len(formatter) :
                      Occurrences(rows, row(formatter[i])) =
                      Occurrences(RowsOf(formatter), row(formatter[i]))
                /\ \A i, j \in 1..Len(rows) : i < j => ~key_lt(rows[j], rows[i])

\* The summary of three results added in descending order: ubuntu 9, then
\* debian 9, then debian 10; the rows are debian 10, debian 9, ubuntu 9.
C19_Witness ==
    /\ Summarised /\ Len(formatter) = 3
    /\ formatter[1].distro = "ubuntu" /\ formatter[1].version = "9"
    /\ formatter[2].distro = "debian" /\ formatter[2].version = "9"
    /\ formatter[3].distro = "debian" /\ formatter[3].version = "10"
    /\ call.result.rows[1].distro = "debian" /\ call.result.rows[1].version = "10"
    /\ call.result.rows[2].version = "9"
    /\ call.result.rows[3].distro = "ubuntu"

Saved == call.fn = "save_json_results"
Indices(rs, P(_)) == {i \in 1..Len(rs) : P(rs[i])}

\* C20: the document save_json_results writes, read back, has summary.total
\* equal to the number of results added, summary.passed the number of them
\* with install_passed true and summary.failed the number with
\* install_passed false, so passed + failed = total; and its results array
\* has one entry per added result, in the order they were added, with the
\* same distro, version and install, onboarding and uninstall flags.
C20_JsonRoundTrip ==
    Saved =>
        LET doc == json_loads(call.result)
        IN /\ doc.summary.total = Len(formatter)
           /\ doc.summary.passed =
                 Cardinality(Indices(formatter, LAMBDA r : r.install_passed))
           /\ doc.summary.failed =
                 Cardinality(Indices(formatter, LAMBDA r : ~r.install_passed))
           /\ doc.summary.passed + doc.summary.failed = doc.summary.total
           /\ Len(doc.results) = Len(formatter)
           /\ \A i \in 1..Len(formatter) :
                 /\ doc.results[i].distro = formatter[i].distro
                 /\ doc.results[i].version = formatter[i].version
                 /\ doc.results[i].install_passed = formatter[i].install_passed
                 /\ doc.results[i].onboarding_passed = formatter[i].onboarding_passed
                 /\ doc.results[i].uninstall_passed = formatter[i].uninstall_passed

\* A document saved for three results, the first passed, the second with a
\* failed onboarding and the third with a failed install.
C20_Witness ==
    /\ Saved /\ Len(formatter) = 3
    /\ formatter[1].install_passed /\ formatter[1].onboarding_passed
    /\ formatter[2].install_passed /\ ~formatter[2].onboarding_passed
    /\ ~formatter[3].install_passed
    /\ json_loads(call.result).summary.passed = 2
    /\ json_loads(call.result).summary.failed = 1

\* ===================================================================
\* The order of the VM operations of one run_test (checked under SpecTest)
Phase(op) ==
    CASE op = "setup_vm" -> 1
      [] op \in {"check_health", "restart_mdatp"} -> 2
      [] op \in {"offboard", "get_logs"} -> 3
      [] op = "uninstall" -> 4
      [] op = "destroy" -> 5

\* C22: the VM operations of a run_test call occur in the order setup_vm,
\* health probes and restarts, offboard, uninstall, destroy; a probe follows
\* setup_vm or a restart and there are at most 3; offboard is attempted at
\* most once, directly after a probe that returned a parsed status, which is
\* then the last probe; uninstall is attempted at most once, directly after
\* an offboard that returned true; and no probe or restart follows offboard.
C22_OperationOrder ==
    \A t \in TaskIds :
        LET ops == task[t].ops
            probes == Calls(ops, "check_health")
            offboards == Calls(ops, "offboard")
            uninstalls == Calls(ops, "uninstall")
        IN /\ \A i, j \in 1..Len(ops) : i < j => Phase(ops[i].op) <= Phase(ops[j].op)
           /\ Cardinality(probes) <= 3
           /\ \A i \in probes :
                 i > 1 /\ ops[i - 1].op \in {"setup_vm", "restart_mdatp"}
           /\ Cardinality(offboards) <= 1
           /\ \A i \in offboards :
                 /\ probes # {} /\ (i - 1) \in probes
                 /\ ops[i - 1].out = "returned" /\ ops[i - 1].health # NoHealth
                 /\ \A j \in probes \cup Calls(ops, "restart_mdatp") : j < i
           /\ Cardinality(uninstalls) <= 1
           /\ \A i \in uninstalls :
                 (i - 1) \in offboards /\ ops[i - 1].out = "ok"

\* A run with every operation: setup_vm, a failed probe, a restart, a probe
\* with an unhealthy status, a restart, a healthy probe, offboard, uninstall
\* and destroy.
C22_Witness ==
    \E t \in TaskIds :
        /\ task[t].pc = "done" /\ Len(task[t].ops) = 9
        /\ task[t].ops[2].health = NoHealth
        /\ task[t].ops[4].health # NoHealth /\ ~Healthy(task[t].ops[4].health)
        /\ Healthy(task[t].ops[6].health)
        /\ task[t].ops[7].op = "offboard" /\ task[t].ops[8].op = "uninstall"
        /\ task[t].ops[9].op = "destroy"

\* ===================================================================
\* The elapsed-time budget of run_test (checked under SpecTest)
OverBudget(elapsed) == elapsed > VM_TIMEOUT_SECONDS
TimedOut(tk) ==
    /\ tk.pc = "finally"
    /\ ~tk.result.install_passed /\ ~tk.result.onboarding_passed
    /\ ~tk.result.uninstall_passed
    /\ tk.result.failure_reason \in TimeoutReasons
\* The step of task t that starts at the check after setup_vm returned true,
\* or at the check before a probe, with the budget exceeded.
CheckFails(t) ==
    \/ /\ task[t].pc = "setup" /\ task'[t] # task[t]
       /\ Len(task'[t].ops) = 1 /\ task'[t].ops[1].out = "ok"
       /\ OverBudget(task'[t].ops[1].secs)
    \/ /\ task[t].pc = "probe" /\ task'[t] # task[t]
       /\ OverBudget(task[t].elapsed)

\* C23: the budget is checked after setup_vm has returned true and before
\* every health probe.  A step that makes a probe starts within the budget;
\* a step at one of these checks with more than 15 minutes elapsed returns
\* at once a result with the three pass flags false and a Timeout reason,
\* without a further VM operation; and after such a return only destroy
\* follows.
C23_TimeoutAborts ==
    [][\A t \in TaskIds :
          /\ (/\ task[t].pc = "probe"
              /\ Calls(task'[t].ops, "check_health") # Calls(task[t].ops, "check_health"))
                => ~OverBudget(task[t].elapsed)
          /\ CheckFails(t) =>
                /\ TimedOut(task'[t])
                /\ task[t].pc = "probe" => task'[t].ops = task[t].ops
          /\ (task[t].pc = "finally" /\ task[t].result.failure_reason \in TimeoutReasons) =>
                \A i \in (Len(task[t].ops) + 1)..Len(task'[t].ops) :
                    task'[t].ops[i].op = "destroy"]_vars

\* A run that timed out at the check before its second probe: setup_vm, a
\* probe, a restart, and then only destroy.
C23_Witness ==
    \E t \in TaskIds :
        /\ task[t].pc = "done"
        /\ task[t].result.failure_reason = ReasonTimeoutHealth
        /\ Len(task[t].ops) = 4
        /\ task[t].ops[2].op = "check_health" /\ task[t].ops[3].op = "restart_mdatp"
        /\ task[t].ops[4].op = "destroy"

\* ===================================================================
\* The flags of the result of run_test (checked under SpecTest)
LastProbe(ops) ==
    LET probes == {i \in Calls(ops, "check_health") : ops[i].out = "returned"}
    IN IF probes = {} THEN NoHealth
       ELSE ops[CHOOSE i \in probes : \A j \in probes : j <= i].health
FlagsImply(r) ==
    /\ r.onboarding_passed => r.install_passed
    /\ r.uninstall_passed => r.install_passed

\* C28 as stated: in the result of a run_test call that has returned,
\* onboarding_passed and uninstall_passed each imply install_passed, and
\* install_passed is true exactly when the last probe made returned a parsed
\* status.
C28_AsClaimed ==
    \A t \in TaskIds :
        task[t].pc = "done" =>
            /\ FlagsImply(task[t].result)
            /\ task[t].result.install_passed <=> LastProbe(task[t].ops) # NoHealth

\* C28 amended: onboarding_passed and uninstall_passed each imply
\* install_passed; install_passed is true only if the last probe made
\* returned a parsed status, healthy or not; and it is true whenever the last
\* probe returned a parsed status and the run did not end in a timeout or an
\* exception.
C28_InstallIsLastProbe ==
    \A t \in TaskIds :
        task[t].pc = "done" =>
            LET r == task[t].result
                parsed == LastProbe(task[t].ops) # NoHealth
            IN /\ FlagsImply(r)
               /\ r.install_passed => parsed
               /\ (parsed /\ r.failure_reason \notin TimeoutReasons \cup {ReasonException})
                     => r.install_passed

\* A parsed status from probe 1 and a timeout at the check before probe 2:
\* install_passed is false although the last probe made returned a status.
C28_Witness ==
    \E t \in TaskIds :
        /\ task[t].pc = "done"
        /\ Cardinality(Calls(task[t].ops, "check_health")) = 1
        /\ LastProbe(task[t].ops) # NoHealth
        /\ task[t].result.failure_reason = ReasonTimeoutHealth
        /\ ~task[t].result.install_passed

\* C30: when preserve_on_failure is enabled a run_test call never calls
\* destroy, on any exit path and whatever its result, a result with install,
\* onboarding and uninstall passed included.
C30_PreserveSkipsDestroy ==
    \A t \in TaskIds :
        config.preserve_on_failure => Calls(task[t].ops, "destroy") = {}

\* With preserve_on_failure enabled a run with the three steps passed and no
\* failure reason has returned, its last VM call being uninstall.
C30_Witness ==
    \E t \in TaskIds :
        /\ config.preserve_on_failure /\ task[t].pc = "done"
        /\ task[t].result.install_passed /\ task[t].result.onboarding_passed
        /\ task[t].result.uninstall_passed
        /\ task[t].result.failure_reason = NoReason
        /\ task[t].ops[Len(task[t].ops)].op = "uninstall"

\* ===================================================================
\* The shared results of a parallel run_tests (checked under SpecPar)
Parallel == maxc > 1

\* C24: in parallel mode the formatter and the results list change only in
\* a step of the thread that called run_tests, in its as_completed loop: the
\* step takes one finished future, appends its result once to each of the
\* two, and changes no worker's run_test; and when run_tests has returned the
\* formatter holds exactly the results run_tests returns, each once and in
\* the same order.
C24_OrchestratorCollects ==
    /\ []((Parallel /\ rtpc = "returned") =>
             /\ formatter = results
             /\ \A i \in 1..Len(distros) : Cardinality(ResultsFor(distros[i], formatter)) = 1)
    /\ [][(Parallel /\ (formatter' # formatter \/ results' # results)) =>
             /\ rtpc = "as_completed" /\ task' = task
             /\ \E t \in TaskIds :
                   /\ fut[t].state = "finished"
                   /\ fut' = [fut EXCEPT ![t].state = "collected"]
                   /\ formatter' = Append(formatter, fut[t].result)
                   /\ results' = Append(results, fut[t].result)]_vars

\* A parallel run_tests has returned three results that the formatter holds
\* too, the first of them not the result of the first distro.
C24_Witness ==
    /\ Parallel /\ rtpc = "returned"
    /\ Len(formatter) = 3 /\ formatter = results
    /\ formatter[1].distro # distros[1].distro

\* ===================================================================
\* The lookups of distro_parser.py (checked under SpecLib)
MatrixEntries(distro, version) ==
    {i \in 1..Len(get_test_matrix) :
        get_test_matrix[i].distro = distro /\ get_test_matrix[i].version = version}

\* C21: for a (distro, version) pair of the curated table the two lookups
\* return the scaled version and the box of the pair's row, the matrix has
\* exactly one entry for the pair and that entry carries the same two
\* values; for a distro or a version that is not in the table they return
\* the version itself and generic/<distro><version>, and the matrix has no
\* entry for the pair.
C21_Lookups ==
    (call.fn = "lookup" /\ call.pc = "returned") =>
        LET rows == IF call.distro \in DOMAIN SUPPORTED_DISTROS
                    THEN {r \in 1..Len(SUPPORTED_DISTROS[call.distro]) :
                             SUPPORTED_DISTROS[call.distro][r][1] = call.version}
                    ELSE {}
            entries == MatrixEntries(call.distro, call.version)
        IN  IF rows # {}
            THEN /\ Cardinality(rows) = 1
                 /\ \A r \in rows :
                       /\ call.scaled = SUPPORTED_DISTROS[call.distro][r][2]
                       /\ call.box = SUPPORTED_DISTROS[call.distro][r][3]
                 /\ Cardinality(entries) = 1
                 /\ \A i \in entries :
                       /\ get_test_matrix[i].scaled_version = call.scaled
                       /\ get_test_matrix[i].vagrant_box = call.box
            ELSE /\ call.scaled = call.version
                 /\ call.box = <<"generic", call.distro, call.version>>
                 /\ entries = {}

\* The lookup of fedora 42 has returned: a registered pair whose scaled
\* version is not its version and whose box is not a generic one.
C21_Witness ==
    /\ call.fn = "lookup" /\ call.pc = "returned"
    /\ call.distro = "fedora" /\ call.version = "42"
    /\ call.scaled = "8" /\ call.box = <<"alvistack", "fedora-42">>

\* ===================================================================
\* The status labels and the failure logs (checked under SpecLib)
AllPassed(r) == r.install_passed /\ r.onboarding_passed /\ r.uninstall_passed
Label(r) ==
    CASE ~r.install_passed ->
            <<"FAILED: ", IF r.failure_reason = NoReason THEN "Unknown"
                          ELSE r.failure_reason>>
      [] r.install_passed /\ ~r.onboarding_passed -> <<"ONBOARDING FAILED">>
      [] r.install_passed /\ r.onboarding_passed /\ ~r.uninstall_passed ->
            <<"UNINSTALL FAILED">>
      [] AllPassed(r) -> <<"PASSED">>
RowFor(cells, r) ==
    /\ cells.distro = r.distro /\ cells.version = r.version
    /\ cells.install_icon = icon(r.install_passed)
    /\ cells.onboard_icon = icon(r.onboarding_passed)
    /\ cells.uninstall_icon = icon(r.uninstall_passed)

\* C25: every row of the summary table is the row of an added result and
\* carries the label of the first rule that applies to that result:
\* "FAILED: <reason>" (reason "Unknown" when absent) when install did not pass,
\* else "ONBOARDING FAILED" when onboarding did not pass, else "UNINSTALL
\* FAILED" when uninstall did not pass, else "PASSED"; every added result has
\* such a row; and a row says "PASSED" exactly when it shows three check
\* marks.
C25_StatusLabels ==
    (Summarised /\ formatter # <<>>) =>
        LET rows == call.result.rows
        IN /\ \A j \in 1..Len(rows) :
                 /\ \E i \in 1..Len(formatter) :
                       RowFor(rows[j], formatter[i]) /\ rows[j].status = Label(formatter[i])
                 /\ rows[j].status = <<"PASSED">> <=>
                       /\ rows[j].install_icon = "check"
                       /\ rows[j].onboard_icon = "check"
                       /\ rows[j].uninstall_icon = "check"
           /\ \A i \in 1..Len(formatter) :
                 \E j \in 1..Len(rows) :
                    RowFor(rows[j], formatter[i]) /\ rows[j].status = Label(formatter[i])

\* A summary whose three rows carry "UNINSTALL FAILED", "FAILED: Unknown"
\* and "ONBOARDING FAILED".
C25_Witness ==
    /\ Summarised /\ Len(formatter) = 3
    /\ \E i, j, k \in 1..3 :
          /\ call.result.rows[i].status = <<"UNINSTALL FAILED">>
          /\ call.result.rows[j].status = <<"FAILED: ", "Unknown">>
          /\ call.result.rows[k].status = <<"ONBOARDING FAILED">>
          /\ call.result.rows[k].uninstall_icon = "check"

SavedAll == call.fn = "save_all"

GotLogs == call.fn = "get_logs" /\ call.pc = "returned"
Requested == 1..Len(call.log_files)
\* The paths after path i whose entry has the same key.
Later(i) == {j \in Requested : j > i /\ call.log_files[j][2] = call.log_files[i][2]}
Stored(i) == call.outcomes[i] # "nonzero"
Text(i) ==
    CASE call.outcomes[i] = "content" -> <<"content of", call.log_files[i]>>
      [] call.outcomes[i] = "missing" -> <<"Log not found">>
      [] OTHER -> <<"Error retrieving log: ">>

\* C27 as claimed: get_logs returns one entry for each requested path under
\* the file's name: the content, or placeholder text when the file is missing
\* or its retrieval failed.
C27_AsClaimed ==
    GotLogs =>
        /\ DOMAIN call.result = {call.log_files[i][2] : i \in Requested}
        /\ \A i \in Requested :
              Later(i) = {} =>
                 /\ call.log_files[i][2] \in DOMAIN call.result
                 /\ call.outcomes[i] = "content" =>
                       call.result[call.log_files[i][2]] = <<"content of", call.log_files[i]>>
                 /\ call.outcomes[i] # "content" =>
                       call.result[call.log_files[i][2]] \in
                          {<<"Log not found">>, <<"Error retrieving log: ">>}

\* C27: get_logs returns, whatever the commands of the other paths did, a
\* dictionary whose keys are the file names of the requested paths whose
\* command exited 0 or raised; a path whose command exited non-zero adds no
\* entry. Under a name stands the entry of the last such path with that name:
\* the file's content, "Log not found" when the file is missing, or the error
\* text when the command raised.
C27_EntriesOfRunCommands ==
    GotLogs =>
        /\ DOMAIN call.result = {call.log_files[i][2] : i \in {j \in Requested : Stored(j)}}
        /\ \A i \in Requested :
              (Stored(i) /\ \A j \in Later(i) : ~Stored(j)) =>
                 call.result[call.log_files[i][2]] = Text(i)

\* Two paths were requested; the command of the first exited non-zero and has
\* no entry, the second file was read and has its entry.
C27_Witness ==
    /\ GotLogs /\ Len(call.log_files) = 2
    /\ call.outcomes[1] = "nonzero" /\ call.outcomes[2] = "content"
    /\ call.log_files[1][2] = "installer.log"
    /\ DOMAIN call.result = {"managed_apply.log"}

\* ===================================================================
\* The VM names of the curated matrix (checked under SpecLib)

\* C29: the VM names of two different entries of the curated matrix are
\* different, and the names of one entry computed twice are the same; so the
\* vagrant commands of two run_test calls for different entries, each naming
\* the VM of its own entry, never name the same VM.
C29_DistinctVmNames ==
    (call.fn = "_get_vm_name" /\ call.pc = "returned") =>
        (call.result[1] = call.result[2] <=> call.entries[1] = call.entries[2])

\* The names of ubuntu 25.04 and ubuntu 25.10 are computed: mde-ubuntu-2504
\* and mde-ubuntu-2510, the dots of the versions removed.
C29_Witness ==
    /\ call.fn = "_get_vm_name" /\ call.pc = "returned"
    /\ get_test_matrix[call.entries[1]].version = "25.04"
    /\ get_test_matrix[call.entries[2]].version = "25.10"
    /\ call.result[1] = <<"m", "d", "e", "-", "u", "b", "u", "n", "t", "u", "-",
                          "2", "5", "0", "4">>
    /\ call.result[2] = <<"m", "d", "e", "-", "u", "b", "u", "n", "t", "u", "-",
                          "2", "5", "1", "0">>

====
